---- MODULE Spec2Model ----
(***************************************************************************)
(* A model of the Korean-exchange portfolio aggregator:                    *)
(*   api_prices.py  - PriceAPI, the cascading price resolver               *)
(*   api_korbit.py  - KorbitAPI, the OAuth2 client with a token cache      *)
(*   api_bithumb.py, api_coinone.py, api_upbit.py - the other clients      *)
(*   cex_agg.py     - Aggregator.get_report                                *)
(*                                                                         *)
(* Python strings that the code upper()/lower()s are sequences of one-     *)
(* character strings, so that case conversion is computed, not assumed.    *)
(* JSON bodies are tagged records; None is the record JNull.  A call       *)
(* either returns a value or raises: an outcome that raises carries the    *)
(* Python exception class name.                                            *)
(***************************************************************************)
EXTENDS Integers, Sequences, FiniteSets, TLC

VARIABLES
    p_pc,       \* PriceAPI.get_first_valid_price: "idle" | "loop" | "done"
    p_symbol,   \* its argument
    p_i,        \* index of the next entry of `exchanges` (5: list exhausted)
    p_calls,    \* names of the get_*_price functions called so far, in order
    p_http,     \* names of the sources an HTTP GET was issued to, in order
    p_quotes,   \* the ExchangePrice (or raise) each called source produced
    p_ret       \* what the call returned or raised ("none" while running)

p_vars == <<p_pc, p_symbol, p_i, p_calls, p_http, p_quotes, p_ret>>

VARIABLES
    k_obj,              \* the KorbitAPI instance: "none" | "live" | "failed"
    k_now,              \* time.time()
    k_access_token,     \* self.access_token
    k_token_expires_at, \* self.token_expires_at
    k_grants,           \* grant requests sent so far
    k_last              \* the last call on the instance: what it requested,
                        \* how its grant went and what it returned or raised

k_vars == <<k_obj, k_now, k_access_token, k_token_expires_at, k_grants, k_last>>

VARIABLES
    a_pc,       \* cex_agg.py: "main" | "bithumb" | "coinone" | "korbit" | "upbit"
                \*             | "merge" | "done" | "crashed"
    a_korbit,   \* the KorbitAPI instance handed to the Aggregator, and its clock
    a_dfs,      \* dfs of Aggregator.get_report
    a_reports,  \* per exchange: whether its report was asked for, its nonzero
                \* list and what get_report_with_nonzero_balances returned or raised
    a_ret       \* what Aggregator.get_report returned ("none" while running)

a_vars == <<a_pc, a_korbit, a_dfs, a_reports, a_ret>>

VARIABLES
    c_op,         \* the method called on a client ("none" before the call)
    c_client,     \* "bithumb" | "coinone" | "korbit" | "upbit" | "portfolio"
    c_currencies, \* its `currencies` argument
    c_holdings,   \* what the account holds at the exchange
    c_resps,      \* the responses to its balance requests, in order
    c_presp,      \* the response to each of its ticker requests
    c_out         \* what the call returned or raised

c_vars == <<c_op, c_client, c_currencies, c_holdings, c_resps, c_presp, c_out>>

vars == <<p_vars, k_vars, a_vars, c_vars>>

\* a step of one component leaves the others alone
PriceOnly == UNCHANGED <<k_vars, a_vars, c_vars>>

KorbitOnly == UNCHANGED <<p_vars, a_vars, c_vars>>

AggOnly == UNCHANGED <<p_vars, k_vars, c_vars>>

ClientOnly == UNCHANGED <<p_vars, k_vars, a_vars>>

----------------------------------------------------------------------------
(* Strings *)

UpperLetters ==
    <<"A","B","C","D","E","F","G","H","I","J","K","L","M",
      "N","O","P","Q","R","S","T","U","V","W","X","Y","Z">>

LowerLetters ==
    <<"a","b","c","d","e","f","g","h","i","j","k","l","m",
      "n","o","p","q","r","s","t","u","v","w","x","y","z">>

\* str.lower() / str.upper(), one character
LowerChar(c) ==
    IF \E i \in DOMAIN UpperLetters : UpperLetters[i] = c
    THEN LowerLetters[CHOOSE i \in DOMAIN UpperLetters : UpperLetters[i] = c]
    ELSE c

UpperChar(c) ==
    IF \E i \in DOMAIN LowerLetters : LowerLetters[i] = c
    THEN UpperLetters[CHOOSE i \in DOMAIN LowerLetters : LowerLetters[i] = c]
    ELSE c

Lower(s) == [i \in DOMAIN s |-> LowerChar(s[i])]

Upper(s) == [i \in DOMAIN s |-> UpperChar(s[i])]

RECURSIVE Join(_)
\* the characters of s as one string (used as a dict key or in a URL)
Join(s) == IF s = <<>> THEN "" ELSE s[1] \o Join(Tail(s))

Digits == <<"0","1","2","3","4","5","6","7","8","9">>

IsDigit(c) == \E i \in DOMAIN Digits : Digits[i] = c

DigitVal(c) == (CHOOSE i \in DOMAIN Digits : Digits[i] = c) - 1

RECURSIVE DigitsValTo(_, _)
\* the number the first n digits of s spell
DigitsValTo(s, n) ==
    IF n = 0 THEN 0 ELSE 10 * DigitsValTo(s, n - 1) + DigitVal(s[n])

DigitsVal(s) == DigitsValTo(s, Len(s))

----------------------------------------------------------------------------
(* JSON values, as response.json() returns them *)

JNull == [t |-> "null"]

JNum(n) == [t |-> "num", n |-> n]

JStr(s) == [t |-> "str", s |-> s]

JList(l) == [t |-> "list", l |-> l]

JDict(d) == [t |-> "dict", d |-> d]

EmptyDict == JDict([k \in {} |-> JNull])

\* a JSON object whose keys are iterated: the pairs <<key, value>> in the
\* order of the body, the keys as character sequences
JObject(pairs) ==
    [t |-> "dict",
     d |-> [k \in {Join(pairs[i][1]) : i \in DOMAIN pairs} |->
              pairs[CHOOSE i \in DOMAIN pairs : Join(pairs[i][1]) = k][2]],
     items |-> pairs]

\* dict.get(key, default)
DictGet(j, key, default) == IF key \in DOMAIN j.d THEN j.d[key] ELSE default

\* Python truthiness of a JSON value
Truthy(j) ==
    CASE j.t = "null" -> FALSE
      [] j.t = "num"  -> j.n # 0
      [] j.t = "str"  -> j.s # <<>>
      [] j.t = "list" -> j.l # <<>>
      [] j.t = "dict" -> DOMAIN j.d # {}

Ok(v) == [ok |-> TRUE, val |-> v]

Exc(e) == [ok |-> FALSE, exc |-> e]

\* an assignment `x = expr` followed by the code that reads x: expr is
\* evaluated once and F is the rest of the block
Let(v, F(_)) == CHOOSE r \in {F(x) : x \in {v}} : TRUE

\* float(x): a number, or a string of decimal digits with an optional sign;
\* any other string is a ValueError, any other type a TypeError
float(j) ==
    CASE j.t = "num" -> Ok(j.n)
      [] j.t = "str" ->
            IF j.s # <<>> /\ \A i \in DOMAIN j.s : IsDigit(j.s[i])
            THEN Ok(DigitsVal(j.s))
            ELSE IF Len(j.s) > 1 /\ j.s[1] = "-"
                    /\ \A i \in 2..Len(j.s) : IsDigit(j.s[i])
            THEN Ok(0 - DigitsVal(Tail(j.s)))
            ELSE Exc("ValueError")
      [] OTHER -> Exc("TypeError")

----------------------------------------------------------------------------
(* api_prices.py *)

\* Optional[str]: None, or a string
None == [none |-> TRUE]

Str(msg) == [none |-> FALSE, msg |-> msg]

\* @dataclass ExchangePrice, and a call that raised instead of returning one
ExchangePrice(exchange, price, error) ==
    [kind |-> "quote", exchange |-> exchange, price |-> price, error |-> error]

Raise(e) == [kind |-> "raise", exc |-> e]

is_error(q) == q.error # None

\* What one HTTP request can end in: requests raises (no connection, a
\* timeout, a body that is not JSON), or a response arrives with a status
\* code and a JSON body
TransportError == [http |-> "error"]

Body(j) == [http |-> "ok", json |-> j]

HttpError(j) == [http |-> "status", json |-> j]

\* f"Error: {str(e)}"
RequestError == <<"E","r","r","o","r",":"," ","f","a","i","l","e","d">>

\* _make_request: a RequestException becomes an "Error: ..." string
make_request(resp) ==
    IF resp.http = "ok" THEN resp.json ELSE JStr(RequestError)

\* isinstance(data, str): the error string of _make_request, or a JSON body
\* that is itself a string
IsStr(data) == data.t = "str"

ErrText(data) == Str(Join(data.s))

\* float(d.get(key, 0)) inside try/except (ValueError, TypeError)
PriceField(exchange, d, key) ==
    LET f == float(DictGet(d, key, JNum(0)))
    IN  IF f.ok THEN ExchangePrice(exchange, f.val, None)
        ELSE ExchangePrice(exchange, 0, Str("Error: Invalid price data"))

symKRW == <<"k","r","w">>

\* what a get_*_price call did: its result and the URLs it requested
Called(val, reqs) == [val |-> val, reqs |-> reqs]

\* lines 59-67, on the value _make_request returned
upbit_quote(data) ==
    IF IsStr(data) THEN ExchangePrice("Upbit", 0, ErrText(data))
    ELSE IF ~Truthy(data)
         THEN ExchangePrice("Upbit", 0, Str("Error: Empty response from API"))
    ELSE IF data.t = "num" THEN Raise("TypeError")            \* len(5)
    ELSE IF data.t = "dict" THEN Raise("KeyError")            \* data[0]
    ELSE IF data.l[1].t # "dict" THEN Raise("AttributeError") \* data[0].get
    ELSE PriceField("Upbit", data.l[1], "trade_price")

\* mutant: the fiat test made case-sensitive
get_upbit_price_exact_case(coin, resp) ==
    IF coin = symKRW THEN Called(ExchangePrice("Upbit", 1, None), <<>>)
    ELSE Called(upbit_quote(make_request(resp)),
                <<"https://api.upbit.com/v1/ticker?markets=KRW-" \o Join(Upper(coin))>>)

get_upbit_price(coin, resp) ==
    IF Lower(coin) = symKRW THEN Called(ExchangePrice("Upbit", 1, None), <<>>)
    ELSE Called(upbit_quote(make_request(resp)),
                <<"https://api.upbit.com/v1/ticker?markets=KRW-" \o Join(Upper(coin))>>)

S0000 == <<"0","0","0","0">>

\* lines 76-84
bithumb_quote(data) ==
    IF IsStr(data) THEN ExchangePrice("Bithumb", 0, ErrText(data))
    ELSE IF data.t # "dict" THEN Raise("AttributeError")      \* data.get
    ELSE IF DictGet(data, "status", JNull) = JStr(S0000)
         THEN IF "data" \notin DOMAIN data.d THEN Raise("KeyError")
              ELSE IF data.d["data"].t # "dict" THEN Raise("AttributeError")
              ELSE PriceField("Bithumb", data.d["data"], "closing_price")
    ELSE ExchangePrice("Bithumb", 0, Str("Error: API returned status"))

get_bithumb_price(coin, resp) ==
    IF Lower(coin) = symKRW THEN Called(ExchangePrice("Bithumb", 1, None), <<>>)
    ELSE Called(bithumb_quote(make_request(resp)),
                <<"https://api.bithumb.com/public/ticker/" \o Join(coin) \o "_KRW">>)

S0 == <<"0">>

\* lines 93-101
coinone_quote(data) ==
    IF IsStr(data) THEN ExchangePrice("Coinone", 0, ErrText(data))
    ELSE IF data.t # "dict" THEN Raise("AttributeError")      \* data.get
    ELSE IF DictGet(data, "errorCode", JNull) = JStr(S0)
         THEN PriceField("Coinone", data, "last")
    ELSE ExchangePrice("Coinone", 0, Str("Error: API returned errorCode"))

get_coinone_price(coin, resp) ==
    IF Lower(coin) = symKRW THEN Called(ExchangePrice("Coinone", 1, None), <<>>)
    ELSE Called(coinone_quote(make_request(resp)),
                <<"https://api.coinone.co.kr/ticker/?currency=" \o Join(coin)>>)

\* self.token_map, keyed by the lower-cased symbol
token_map ==
    [s \in {<<"b","t","c">>, <<"e","t","h">>} |->
        IF s = <<"b","t","c">> THEN "bitcoin" ELSE "ethereum"]

\* self.token_map.get(coin.lower(), coin.lower())
token_id(coin) ==
    IF Lower(coin) \in DOMAIN token_map THEN token_map[Lower(coin)]
    ELSE Join(Lower(coin))

\* lines 111-118
coingecko_quote(coin, data) ==
    IF IsStr(data) THEN ExchangePrice("Coingecko", 0, ErrText(data))
    ELSE IF data.t # "dict" THEN Raise("AttributeError")      \* data.get
    ELSE LET inner == DictGet(data, token_id(coin), EmptyDict)
         IN  IF inner.t # "dict" THEN Raise("AttributeError") \* {...}.get
             ELSE LET f == float(DictGet(inner, "krw", JNum(0)))
                  IN  IF f.ok THEN ExchangePrice("Coingecko", f.val, None)
                      ELSE ExchangePrice("Coingecko", 0,
                                         Str("Error: Unable to get price"))

get_coingecko_price(coin, resp) ==
    IF Lower(coin) = symKRW THEN Called(ExchangePrice("Coingecko", 1, None), <<>>)
    ELSE Called(coingecko_quote(coin, make_request(resp)),
                <<"https://api.coingecko.com/api/v3/simple/price?ids="
                  \o token_id(coin) \o "&vs_currencies=krw">>)

\* the `exchanges` list of get_first_valid_price
exchanges == <<"Upbit", "Bithumb", "Coinone", "Coingecko">>

\* mutant: the price test dropped
is_valid_error_only(q) == ~is_error(q)

\* `not result.is_error and float(result.price) > 0`
is_valid(q) == ~is_error(q) /\ q.price > 0

NoValidPrice == "No valid price found"

Returned(price, name) == [kind |-> "return", price |-> price, name |-> name]

Running == [kind |-> "none"]

----------------------------------------------------------------------------
(* Inputs of the price resolver *)

MaxPrice == 2

\* every spelling of the local fiat code
KrwSpellings ==
    {<<a, b, c>> : a \in {"K", "k"}, b \in {"R", "r"}, c \in {"W", "w"}}

Symbols == KrwSpellings \cup { <<"B","T","C">>, <<"x","r","p">> }

\* values a price field of a body can hold
PriceVals ==
    {JNull, JNum(-1), JStr(<<"x">>), JList(<<>>)}
      \cup {JNum(n) : n \in 0..MaxPrice}
      \cup {JStr(<<Digits[n + 1]>>) : n \in 0..MaxPrice}

Bodies(coin) ==
    {JNull, JNum(5), JStr(<<"x">>), EmptyDict, JList(<<>>),
     JList(<<EmptyDict>>), JList(<<JNum(1)>>),
     JDict("status" :> JStr(S0000)),
     JDict("status" :> JStr(S0000) @@ "data" :> JNull),
     JDict("status" :> JStr(<<"5","5","0","0">>)),
     JDict("errorCode" :> JStr(<<"4">>)),
     JDict(token_id(coin) :> JNum(1))}
      \cup {JList(<<JDict("trade_price" :> v)>>) : v \in PriceVals}
      \cup {JDict("status" :> JStr(S0000) @@ "data" :> JDict("closing_price" :> v)) :
              v \in PriceVals}
      \cup {JDict("errorCode" :> JStr(S0) @@ "last" :> v) : v \in PriceVals}
      \cup {JDict(token_id(coin) :> JDict("krw" :> v)) : v \in PriceVals}

\* everything one HTTP GET can end in
Responses(coin) ==
    {TransportError, HttpError(EmptyDict)} \cup {Body(j) : j \in Bodies(coin)}

----------------------------------------------------------------------------
(* PriceAPI.get_first_valid_price, one loop iteration per step *)

PriceInit ==
    /\ p_pc = "idle"
    /\ p_symbol = <<>>
    /\ p_i = 1
    /\ p_calls = <<>>
    /\ p_http = <<>>
    /\ p_quotes = <<>>
    /\ p_ret = Running

\* a caller invokes get_first_valid_price(symbol)
CallGetFirstValidPrice ==
    /\ p_pc \in {"idle", "done"}
    /\ \E symbol \in Symbols : p_symbol' = symbol
    /\ p_pc' = "loop"
    /\ p_i' = 1
    /\ p_calls' = <<>>
    /\ p_http' = <<>>
    /\ p_quotes' = <<>>
    /\ p_ret' = Running
    /\ PriceOnly

\* mutant: a valid quote is remembered but the loop goes on
LoopStep_no_return(i, c) ==
    LET result == c.val
    IN  /\ p_calls' = Append(p_calls, exchanges[i])
        /\ p_http' = p_http \o c.reqs
        /\ p_quotes' = Append(p_quotes, result)
        /\ IF result.kind = "raise"
           THEN /\ p_ret' = Raise(result.exc)
                /\ p_pc' = "done"
                /\ p_i' = p_i
           ELSE /\ p_ret' = p_ret
                /\ p_pc' = p_pc
                /\ p_i' = i + 1
        /\ UNCHANGED p_symbol

\* lines 129-132: result = get_price(symbol); return if valid
LoopStep(i, c) ==
    LET result == c.val
    IN  /\ p_calls' = Append(p_calls, exchanges[i])
        /\ p_http' = p_http \o c.reqs
        /\ p_quotes' = Append(p_quotes, result)
        /\ IF result.kind = "raise"
           THEN /\ p_ret' = Raise(result.exc)
                /\ p_pc' = "done"
                /\ p_i' = p_i
           ELSE IF is_valid(result)
           THEN /\ p_ret' = Returned(result.price, exchanges[i])
                /\ p_pc' = "done"
                /\ p_i' = p_i
           ELSE /\ p_ret' = p_ret
                /\ p_pc' = p_pc
                /\ p_i' = i + 1
        /\ UNCHANGED p_symbol

QueryUpbit ==
    /\ p_pc = "loop"
    /\ p_i = 1
    /\ \E resp \in Responses(p_symbol) :
          LoopStep(1, get_upbit_price(p_symbol, resp))
    /\ PriceOnly

QueryBithumb ==
    /\ p_pc = "loop"
    /\ p_i = 2
    /\ \E resp \in Responses(p_symbol) :
          LoopStep(2, get_bithumb_price(p_symbol, resp))
    /\ PriceOnly

QueryCoinone ==
    /\ p_pc = "loop"
    /\ p_i = 3
    /\ \E resp \in Responses(p_symbol) :
          LoopStep(3, get_coinone_price(p_symbol, resp))
    /\ PriceOnly

QueryCoingecko ==
    /\ p_pc = "loop"
    /\ p_i = 4
    /\ \E resp \in Responses(p_symbol) :
          LoopStep(4, get_coingecko_price(p_symbol, resp))
    /\ PriceOnly

\* mutant: the sentinel is returned one source early
ReturnNoValidPrice_early ==
    /\ p_pc = "loop"
    /\ p_i = Len(exchanges)
    /\ p_ret' = Returned(0, NoValidPrice)
    /\ p_pc' = "done"
    /\ UNCHANGED <<p_symbol, p_i, p_calls, p_http, p_quotes>>
    /\ PriceOnly

\* line 134
ReturnNoValidPrice ==
    /\ p_pc = "loop"
    /\ p_i = Len(exchanges) + 1
    /\ p_ret' = Returned(0, NoValidPrice)
    /\ p_pc' = "done"
    /\ UNCHANGED <<p_symbol, p_i, p_calls, p_http, p_quotes>>
    /\ PriceOnly

PriceNext ==
    \/ CallGetFirstValidPrice
    \/ QueryUpbit
    \/ QueryBithumb
    \/ QueryCoinone
    \/ QueryCoingecko
    \/ ReturnNoValidPrice

----------------------------------------------------------------------------
(* api_korbit.py: the OAuth2 session *)

SafetyMargin == 60

\* the cached session: self.access_token, self.token_expires_at
Session(token, expires_at) == [access_token |-> token, token_expires_at |-> expires_at]

\* what _get_access_token did: the session it left, the exception it raised
\* (None if it returned), the requests it sent, and the clock when it ended
TokenStep(sess, exc, reqs, now) == [sess |-> sess, exc |-> exc, reqs |-> reqs, now |-> now]

GrantRequest ==
    [request |-> "POST /v1/oauth2/access_token", grant_type |-> "client_credentials"]

\* mutant: the expiry is cached without the safety margin
get_access_token_no_margin(sess, now, resp, latency) ==
    IF now < sess.token_expires_at THEN TokenStep(sess, None, <<>>, now)
    ELSE IF resp.http # "ok"
         THEN TokenStep(sess, Str("RequestException"), <<GrantRequest>>, now + latency)
    ELSE IF resp.json.t # "dict"
         THEN TokenStep(sess, Str("TypeError"), <<GrantRequest>>, now + latency)
    ELSE IF "access_token" \notin DOMAIN resp.json.d
         THEN TokenStep(sess, Str("KeyError"), <<GrantRequest>>, now + latency)
    ELSE LET got == Session(resp.json.d["access_token"], sess.token_expires_at)
         IN  IF "expires_in" \notin DOMAIN resp.json.d
             THEN TokenStep(got, Str("KeyError"), <<GrantRequest>>, now + latency)
             ELSE IF resp.json.d["expires_in"].t # "num"
             THEN TokenStep(got, Str("TypeError"), <<GrantRequest>>, now + latency)
             ELSE TokenStep(Session(got.access_token,
                                    (now + latency) + resp.json.d["expires_in"].n),
                            None, <<GrantRequest>>, now + latency)

\* _get_access_token (lines 22-41).  `now` is time.time() of line 23; the
\* request takes `latency`, so time.time() of line 38 is now + latency.
\* Line 37 stores the token before line 38 reads expires_in.
get_access_token(sess, now, resp, latency) ==
    IF now < sess.token_expires_at THEN TokenStep(sess, None, <<>>, now)
    ELSE IF resp.http # "ok"
         THEN TokenStep(sess, Str("RequestException"), <<GrantRequest>>, now + latency)
    ELSE IF resp.json.t # "dict"
         THEN TokenStep(sess, Str("TypeError"), <<GrantRequest>>, now + latency)
    ELSE IF "access_token" \notin DOMAIN resp.json.d
         THEN TokenStep(sess, Str("KeyError"), <<GrantRequest>>, now + latency)
    ELSE LET got == Session(resp.json.d["access_token"], sess.token_expires_at)
         IN  IF "expires_in" \notin DOMAIN resp.json.d
             THEN TokenStep(got, Str("KeyError"), <<GrantRequest>>, now + latency)
             ELSE IF resp.json.d["expires_in"].t # "num"
             THEN TokenStep(got, Str("TypeError"), <<GrantRequest>>, now + latency)
             ELSE TokenStep(Session(got.access_token,
                                    (now + latency) + resp.json.d["expires_in"].n
                                        - SafetyMargin),
                            None, <<GrantRequest>>, now + latency)

\* the Authorization header _get_headers builds (lines 45-47)
Bearer(token) == [Authorization |-> token]

\* `currencies` of get_balances: None, or a list
NoCurrencies == [given |-> FALSE, list |-> <<>>]

Currencies(list) == [given |-> TRUE, list |-> list]

\* `currencies and currency not in currencies`
KorbitSkipped(currencies, currency) ==
    /\ currencies.given
    /\ currencies.list # <<>>
    /\ \A i \in DOMAIN currencies.list : currencies.list[i] # currency

\* lines 67-75: one entry of the balances dict, or the exception raised
KorbitBalance(currency, balance) ==
    IF balance.t # "dict" THEN Exc("AttributeError")       \* balance.get
    ELSE LET available == float(DictGet(balance, "available", JNum(0)))
             trade_in_use == float(DictGet(balance, "trade_in_use", JNum(0)))
         IN  IF ~available.ok THEN available
             ELSE IF ~trade_in_use.ok THEN trade_in_use
             ELSE Ok([currency |-> currency,
                      balance |-> available.val + trade_in_use.val,
                      available |-> available.val,
                      locked |-> trade_in_use.val])

RECURSIVE KorbitBalances(_, _)
\* lines 62-76: the loop over data.items(); the dict it builds is the
\* sequence of its values in insertion order
KorbitBalances(items, currencies) ==
    IF items = <<>> THEN Ok(<<>>)
    ELSE LET rest == KorbitBalances(Tail(items), currencies)
             currency == items[1][1]
         IN  IF KorbitSkipped(currencies, currency)
             THEN rest
             ELSE LET b == KorbitBalance(currency, items[1][2])
                  IN  IF ~b.ok THEN b
                      ELSE IF ~rest.ok THEN rest
                      ELSE Ok(<<b.val>> \o rest.val)

\* what a method call did: the value it returned or the exception it raised
\* (res.ok), the session it left, the requests it sent, the clock at its end
KorbitCall(res, step, reqs) ==
    [res |-> res, sess |-> step.sess, reqs |-> reqs, now |-> step.now,
     grant |-> IF step.reqs = <<>> THEN "none"
               ELSE IF step.exc = None THEN "ok" ELSE "failed"]

\* the grant response the call consumed, if it sent a grant request
GrantSeen(c, grantResp) == IF c.grant = "none" THEN <<>> ELSE <<grantResp>>

\* get_balances (lines 49-79): the headers are built inside the try, so a
\* RequestException raised by the grant is handled by line 77 as well
korbit_get_balances(sess, now, currencies, grantResp, latency, resp) ==
    LET step == get_access_token(sess, now, grantResp, latency)
        api == [request |-> "GET /v1/user/balances",
                headers |-> Bearer(step.sess.access_token)]
    IN  IF step.exc # None
        THEN IF step.exc = Str("RequestException")
             THEN KorbitCall(Ok(<<>>), step, step.reqs)
             ELSE KorbitCall(Exc(step.exc.msg), step, step.reqs)
        ELSE LET reqs == step.reqs \o <<api>>
             IN  IF resp.http # "ok" THEN KorbitCall(Ok(<<>>), step, reqs)
                 ELSE IF ~Truthy(resp.json) THEN KorbitCall(Ok(<<>>), step, reqs)
                 ELSE IF resp.json.t # "dict"
                      THEN KorbitCall(Exc("AttributeError"), step, reqs) \* data.items
                 ELSE KorbitCall(KorbitBalances(resp.json.items, currencies), step, reqs)

\* __init__ (lines 15-20)
korbit_init(now, grantResp, latency) ==
    LET step == get_access_token(Session(JNull, 0), now, grantResp, latency)
    IN  KorbitCall(IF step.exc = None THEN Ok(<<>>) ELSE Exc(step.exc.msg),
                   step, step.reqs)

----------------------------------------------------------------------------
(* pandas *)

\* pd.DataFrame(rows): the columns are the keys of the row dicts
DataFrame(rows) ==
    [columns |-> IF rows = <<>> THEN {} ELSE DOMAIN rows[1], rows |-> rows]

\* pd.DataFrame(columns=[...])
EmptyFrame(columns) == [columns |-> columns, rows |-> <<>>]

\* df.empty
empty(df) == df.rows = <<>>

RECURSIVE Descending(_, _, _)
\* every order of the rows idx that is non-increasing in column `by`: the
\* default sort of sort_values is not stable, so equal keys come in any order
Descending(rows, by, idx) ==
    IF idx = {} THEN {<<>>}
    ELSE LET top == {i \in idx : \A j \in idx : rows[i][by] >= rows[j][by]}
         IN  UNION {{<<rows[i]>> \o r : r \in Descending(rows, by, idx \ {i})} :
                      i \in top}

\* df.sort_values(by=by, ascending=False): the frames it may return, or the
\* KeyError it raises when there is no such column
sort_values(df, by) ==
    IF by \notin df.columns THEN {Exc("KeyError")}
    ELSE {Ok([columns |-> df.columns, rows |-> r]) :
            r \in Descending(df.rows, by, DOMAIN df.rows)}

\* one dict of a report list (its date is left out).  Quantities (balance,
\* total) count units of 10^-5; prices are whole numbers, carried as the
\* value the code stored
ReportLine(currency, balance, price, total) ==
    [currency |-> currency, balance |-> balance, price |-> price, total |-> total]

ReportColumns == {"currency", "balance", "price", "total"}

symKRWupper == <<"K","R","W">>

----------------------------------------------------------------------------
(* api_bithumb.py *)

\* _request (lines 29-44): [] on a RequestException
bithumb_request(resp) == IF resp.http = "ok" THEN resp.json ELSE JList(<<>>)

\* line 63, one account of the comprehension
BithumbAccount(account) ==
    IF account.t # "dict" THEN Exc("TypeError")        \* account['currency']
    ELSE IF {"currency", "balance", "locked"} \ DOMAIN account.d # {}
         THEN Exc("KeyError")
    ELSE LET balance == float(account.d["balance"])
             locked == float(account.d["locked"])
         IN  IF ~balance.ok THEN balance
             ELSE IF ~locked.ok THEN locked
             ELSE Ok([currency |-> account.d["currency"].s,
                      balance |-> balance.val + locked.val])

RECURSIVE BithumbAccounts(_)
BithumbAccounts(l) ==
    IF l = <<>> THEN Ok(<<>>)
    ELSE LET a == BithumbAccount(l[1])
             rest == BithumbAccounts(Tail(l))
         IN  IF ~a.ok THEN a
             ELSE IF ~rest.ok THEN rest
             ELSE Ok(<<a.val>> \o rest.val)

\* next((acc for acc in accounts if acc['currency'] == currency), None)
HasAccount(accounts, currency) ==
    \E i \in DOMAIN accounts : accounts[i].currency = currency

FirstAccount(accounts, currency) ==
    accounts[CHOOSE i \in DOMAIN accounts :
                /\ accounts[i].currency = currency
                /\ \A j \in 1..(i - 1) : accounts[j].currency # currency]

\* get_balances (lines 46-76)
bithumb_get_balances(currencies, resp) ==
    Let(bithumb_request(resp), LAMBDA response :
    Let(CASE response.t = "list" -> BithumbAccounts(response.l)
          [] response.t = "dict" /\ DOMAIN response.d = {} -> Ok(<<>>)
          [] response.t = "str" /\ response.s = <<>> -> Ok(<<>>)
          [] OTHER -> Exc("TypeError"), LAMBDA accounts :
        IF ~accounts.ok THEN accounts
        ELSE IF ~currencies.given THEN accounts
        ELSE Ok([i \in DOMAIN currencies.list |->
                    IF HasAccount(accounts.val, currencies.list[i])
                    THEN FirstAccount(accounts.val, currencies.list[i])
                    ELSE [currency |-> currencies.list[i], balance |-> 0]])))

BithumbExcluded == {<<"P">>, <<"E","T","H","W">>, <<"E","T","H","F">>}

\* get_nonzero_balances (lines 89-97)
bithumb_get_nonzero_balances(resp) ==
    Let(bithumb_get_balances(NoCurrencies, resp), LAMBDA balances :
        IF ~balances.ok THEN balances
        ELSE Ok(SelectSeq(balances.val,
                          LAMBDA b : b.balance > 0
                                     /\ Upper(b.currency) \notin BithumbExcluded)))

\* get_price_by_currency (lines 99-108): KeyError and ValueError give 0.0
bithumb_get_price_by_currency(coin, resp) ==
    LET response == bithumb_request(resp)
    IN  IF response.t = "dict" /\ Truthy(DictGet(response, "data", JNull))
        THEN LET data == response.d["data"]
             IN  IF data.t # "dict" THEN Exc("TypeError")  \* data['closing_price']
                 ELSE IF "closing_price" \notin DOMAIN data.d THEN Ok(0)
                 ELSE LET f == float(data.d["closing_price"])
                      IN  IF f.ok THEN f
                          ELSE IF f.exc = "ValueError" THEN Ok(0)
                          ELSE f
        ELSE Ok(0)

RECURSIVE BithumbLines(_, _)
\* lines 117-133: the loop over accounts; presp maps a currency to the
\* response of its ticker request
BithumbLines(accounts, presp) ==
    IF accounts = <<>> THEN Ok(<<>>)
    ELSE LET currency == accounts[1].currency
             balance == accounts[1].balance
             price == IF currency = symKRWupper THEN Ok(1)
                      ELSE bithumb_get_price_by_currency(currency, presp[currency])
             rest == BithumbLines(Tail(accounts), presp)
         IN  IF ~price.ok THEN price
             ELSE IF ~rest.ok THEN rest
             ELSE Ok(<<ReportLine(currency, balance, JNum(price.val),
                                  balance * price.val)>> \o rest.val)

\* get_report (lines 111-135)
bithumb_get_report(currencies, resp, presp) ==
    Let(bithumb_get_balances(currencies, resp), LAMBDA accounts :
        IF ~accounts.ok THEN accounts
        ELSE IF accounts.val = <<>> THEN Ok(EmptyFrame(ReportColumns))
        ELSE Let(BithumbLines(accounts.val, presp), LAMBDA lines :
                 IF ~lines.ok THEN lines ELSE Ok(DataFrame(lines.val))))

\* [account['currency'] for account in nonzero_accounts]
CurrencyList(accounts) == [i \in DOMAIN accounts |-> accounts[i].currency]

\* get_report_with_nonzero_balances (lines 137-141): two balance requests
bithumb_get_report_with_nonzero_balances(resp1, resp2, presp) ==
    Let(bithumb_get_nonzero_balances(resp1), LAMBDA nonzero_accounts :
        IF ~nonzero_accounts.ok THEN nonzero_accounts
        ELSE Let(Currencies(CurrencyList(nonzero_accounts.val)),
                 LAMBDA currencies : bithumb_get_report(currencies, resp2, presp)))

----------------------------------------------------------------------------
(* api_coinone.py *)

\* _post_request (lines 38-47): no try, no raise_for_status
coinone_post_request(resp) ==
    IF resp.http = "error" THEN Exc("RequestException") ELSE Ok(resp.json)

Ssuccess == <<"s","u","c","c","e","s","s">>

\* mutant: the quantity on order is left out of the total
CoinoneTotal_available_only(balance) ==
    IF balance.t # "dict" THEN Exc("TypeError")
    ELSE IF {"available", "limit"} \ DOMAIN balance.d # {} THEN Exc("KeyError")
    ELSE LET available == float(balance.d["available"])
             limit == float(balance.d["limit"])
         IN  IF ~available.ok THEN available
             ELSE IF ~limit.ok THEN limit
             ELSE Ok(available.val)

\* float(balance["available"]) + float(balance["limit"])
CoinoneTotal(balance) ==
    IF balance.t # "dict" THEN Exc("TypeError")
    ELSE IF {"available", "limit"} \ DOMAIN balance.d # {} THEN Exc("KeyError")
    ELSE LET available == float(balance.d["available"])
             limit == float(balance.d["limit"])
         IN  IF ~available.ok THEN available
             ELSE IF ~limit.ok THEN limit
             ELSE Ok(available.val + limit.val)

RECURSIVE CoinoneNonzero(_)
\* lines 91-98: the comprehension with its `if` clause
CoinoneNonzero(balances) ==
    IF balances = <<>> THEN Ok(<<>>)
    ELSE LET total == CoinoneTotal(balances[1])
             rest == CoinoneNonzero(Tail(balances))
         IN  IF ~total.ok THEN total
             ELSE IF total.val > 0 /\ "currency" \notin DOMAIN balances[1].d
                  THEN Exc("KeyError")
             ELSE IF ~rest.ok THEN rest
             ELSE IF total.val > 0
                  THEN Ok(<<[currency |-> balances[1].d["currency"].s,
                             balance |-> total.val]>> \o rest.val)
             ELSE rest

\* get_nonzero_balances (lines 83-98)
coinone_get_nonzero_balances(resp) ==
    Let(coinone_post_request(resp), LAMBDA response :
        IF ~response.ok THEN response
        ELSE IF response.val.t # "dict" THEN Exc("AttributeError")  \* response.get
        ELSE IF DictGet(response.val, "result", JNull) # JStr(Ssuccess) THEN Ok(<<>>)
        ELSE Let(DictGet(response.val, "balances", JList(<<>>)), LAMBDA balances :
                 IF balances.t # "list" THEN Exc("TypeError")
                 ELSE CoinoneNonzero(balances.l)))

CoinoneError == JStr(<<"E","r","r","o","r">>)

\* get_price_by_currency (lines 100-120): a float, or an "Error..." string
coinone_get_price_by_currency(coin, resp) ==
    IF Lower(coin) = symKRW THEN Ok(JNum(1))
    ELSE LET data == make_request(resp)
         IN  IF data.t # "dict" THEN Exc("AttributeError")          \* data.get
             ELSE IF DictGet(data, "errorCode", JNull) = JStr(S0)
                  THEN LET f == float(DictGet(data, "last", JNum(0)))
                       IN  IF f.ok THEN Ok(JNum(f.val)) ELSE Ok(CoinoneError)
             ELSE Ok(CoinoneError)

RECURSIVE CoinoneLines(_, _)
\* lines 161-180
CoinoneLines(balances, presp) ==
    IF balances = <<>> THEN Ok(<<>>)
    ELSE LET currency == balances[1].currency
             balance_amount == balances[1].balance
             price == coinone_get_price_by_currency(currency, presp[currency])
             rest == CoinoneLines(Tail(balances), presp)
         IN  IF ~price.ok THEN price
             ELSE IF ~rest.ok THEN rest
             ELSE IF price.val.t = "str" THEN rest
             ELSE Ok(<<ReportLine(currency, balance_amount, price.val,
                                  price.val.n * balance_amount)>> \o rest.val)

\* get_report_with_nonzero_balances (lines 155-185): the outcomes it may have
coinone_get_report_with_nonzero_balances(resp, presp) ==
    Let(coinone_get_nonzero_balances(resp), LAMBDA nonzero_balances :
        IF ~nonzero_balances.ok THEN {nonzero_balances}
        ELSE Let(CoinoneLines(nonzero_balances.val, presp), LAMBDA lines :
                 IF ~lines.ok THEN {lines}
                 ELSE sort_values(DataFrame(lines.val), "total")))

RECURSIVE CoinoneAll(_)
\* lines 58-64: the comprehension of get_balances, which filters nothing
CoinoneAll(balances) ==
    IF balances = <<>> THEN Ok(<<>>)
    ELSE IF balances[1].t # "dict" THEN Exc("TypeError")
    ELSE IF "currency" \notin DOMAIN balances[1].d THEN Exc("KeyError")
    ELSE IF ~CoinoneTotal(balances[1]).ok THEN CoinoneTotal(balances[1])
    ELSE IF ~CoinoneAll(Tail(balances)).ok THEN CoinoneAll(Tail(balances))
    ELSE Ok(<<[currency |-> balances[1].d["currency"].s,
               balance |-> CoinoneTotal(balances[1]).val]>>
            \o CoinoneAll(Tail(balances)).val)

\* get_balances (lines 49-64): the requested currencies go to the server
\* in the payload; what the server answers is returned as it is
coinone_get_balances(currencies, resp) ==
    IF ~coinone_post_request(resp).ok THEN coinone_post_request(resp)
    ELSE IF resp.json.t # "dict" THEN Exc("AttributeError")      \* response.get
    ELSE IF DictGet(resp.json, "result", JNull) # JStr(Ssuccess) THEN Ok(<<>>)
    ELSE IF DictGet(resp.json, "balances", JList(<<>>)).t # "list" THEN Exc("TypeError")
    ELSE CoinoneAll(DictGet(resp.json, "balances", JList(<<>>)).l)

\* get_report (lines 122-152): the outcomes it may have
coinone_get_report(currencies, resp, presp) ==
    Let(coinone_get_balances(currencies, resp), LAMBDA balances :
        IF ~balances.ok THEN {balances}
        ELSE Let(CoinoneLines(balances.val, presp), LAMBDA lines :
                 IF ~lines.ok THEN {lines}
                 ELSE sort_values(DataFrame(lines.val), "total")))

----------------------------------------------------------------------------
(* api_upbit.py *)

RECURSIVE IntChars(_)
\* str() of a non-negative whole number
IntChars(n) ==
    IF n < 10 THEN <<Digits[n + 1]>>
    ELSE IntChars(n \div 10) \o <<Digits[(n % 10) + 1]>>

\* line 58: balance['balance'] = str(float(balance['balance']) + float(balance['locked']))
UpbitAccount(balance) ==
    IF balance.t # "dict" THEN Exc("TypeError")
    ELSE IF {"balance", "locked"} \ DOMAIN balance.d # {} THEN Exc("KeyError")
    ELSE LET b == float(balance.d["balance"])
             locked == float(balance.d["locked"])
         IN  IF ~b.ok THEN b
             ELSE IF ~locked.ok THEN locked
             ELSE Ok([currency |-> IF "currency" \in DOMAIN balance.d
                                   THEN <<balance.d["currency"].s>> ELSE <<>>,
                      balance |-> JStr(IntChars(b.val + locked.val))])

RECURSIVE UpbitAccounts(_)
UpbitAccounts(l) ==
    IF l = <<>> THEN Ok(<<>>)
    ELSE LET a == UpbitAccount(l[1])
             rest == UpbitAccounts(Tail(l))
         IN  IF ~a.ok THEN a
             ELSE IF ~rest.ok THEN rest
             ELSE Ok(<<a.val>> \o rest.val)

\* get_balances (lines 47-62): requests.get is not in a try
upbit_get_balances(currencies, resp) ==
    IF resp.http = "error" THEN Exc("RequestException")
    ELSE IF resp.http = "status" THEN Ok(<<>>)
    ELSE Let(IF resp.json.t = "list" THEN UpbitAccounts(resp.json.l)
             ELSE IF resp.json.t \in {"dict", "str"} /\ ~Truthy(resp.json)
                  THEN Ok(<<>>)
             ELSE Exc("TypeError"), LAMBDA balances :   \* `for balance in balances`
             IF ~balances.ok THEN balances
             ELSE IF currencies.given /\ currencies.list # <<>>
                  THEN IF \E i \in DOMAIN balances.val : balances.val[i].currency = <<>>
                       THEN Exc("KeyError")                  \* balance['currency']
                       ELSE Ok(SelectSeq(balances.val,
                               LAMBDA b : \E i \in DOMAIN currencies.list :
                                             currencies.list[i] = b.currency[1]))
             ELSE balances)

UpbitExcluded == {<<"E","T","H","W">>, <<"E","T","H","F">>}

\* get_nonzero_balances (lines 68-76)
upbit_get_nonzero_balances(resp) ==
    Let(upbit_get_balances(NoCurrencies, resp), LAMBDA balances :
        IF ~balances.ok THEN balances
        ELSE IF \E i \in DOMAIN balances.val :
                   /\ float(balances.val[i].balance).val > 0
                   /\ balances.val[i].currency = <<>>
             THEN Exc("KeyError")
        ELSE Ok(SelectSeq(balances.val,
                          LAMBDA b : /\ float(b.balance).val > 0
                                     /\ Upper(b.currency[1]) \notin UpbitExcluded)))

\* get_price_by_currency (lines 79-94): the raw trade_price, or None
upbit_get_price_by_currency(coin, resp) ==
    IF coin = symKRWupper THEN Ok(JNum(1))
    ELSE IF resp.http # "ok" THEN Ok(JNull)
    ELSE LET data == resp.json
         IN  IF ~Truthy(data) THEN Ok(JNull)
             ELSE IF data.t = "dict" THEN Exc("KeyError")           \* data[0]
             ELSE IF data.t # "list" THEN Exc("TypeError")
             ELSE IF data.l[1].t # "dict" THEN Exc("TypeError")     \* data[0]['timestamp']
             ELSE IF "timestamp" \notin DOMAIN data.l[1].d THEN Exc("KeyError")
             ELSE IF data.l[1].d["timestamp"].t # "num" THEN Exc("TypeError")
             ELSE IF "trade_price" \notin DOMAIN data.l[1].d THEN Exc("KeyError")
             ELSE Ok(data.l[1].d["trade_price"])

RECURSIVE UpbitLines(_, _, _)
\* lines 98-110: one balance request and one ticker request per currency;
\* bresp and presp map a currency to the responses of its requests
UpbitLines(currencies, bresp, presp) ==
    IF currencies = <<>> THEN Ok(<<>>)
    ELSE Let(currencies[1], LAMBDA currency :
         Let(upbit_get_balances(Currencies(<<currency>>), bresp[currency]),
             LAMBDA balances :
         Let(UpbitLines(Tail(currencies), bresp, presp), LAMBDA rest :
             IF ~balances.ok THEN balances
             ELSE IF balances.val = <<>>
                  THEN rest                           \* balance is None
             ELSE Let(float(balances.val[1].balance).val, LAMBDA balance :
                  Let(upbit_get_price_by_currency(currency, presp[currency]),
                      LAMBDA price :
                      IF ~price.ok THEN price
                      ELSE IF price.val.t = "null" THEN rest
                      ELSE IF price.val.t # "num" THEN Exc("TypeError")  \* float * str
                      ELSE IF ~rest.ok THEN rest
                      ELSE Ok(<<ReportLine(currency, balance, price.val,
                                           balance * price.val.n)>> \o rest.val))))))

\* get_report (lines 96-114)
upbit_get_report(currencies, bresp, presp) ==
    Let(UpbitLines(currencies, bresp, presp), LAMBDA lines :
        IF ~lines.ok THEN {lines}
        ELSE sort_values(DataFrame(lines.val), "total"))

\* get_report_with_nonzero_balances (lines 117-120)
upbit_get_report_with_nonzero_balances(resp, bresp, presp) ==
    Let(upbit_get_nonzero_balances(resp), LAMBDA nonzero_balances :
        IF ~nonzero_balances.ok THEN {nonzero_balances}
        ELSE Let([i \in DOMAIN nonzero_balances.val |->
                     nonzero_balances.val[i].currency[1]],
                 LAMBDA currencies : upbit_get_report(currencies, bresp, presp)))

----------------------------------------------------------------------------
(* api_korbit.py: the report *)

KorbitExcluded == {<<"e","t","h","w">>, <<"e","t","h","f">>}

\* a later call of the same method chain: its requests follow the earlier
\* ones, and the chain's grant is the worst of the two
KorbitThen(c1, c2) ==
    [c2 EXCEPT !.reqs = c1.reqs \o c2.reqs,
               !.grant = IF "failed" \in {c1.grant, c2.grant} THEN "failed"
                         ELSE IF "ok" \in {c1.grant, c2.grant} THEN "ok"
                         ELSE "none"]

\* get_nonzero_balances (lines 85-94)
korbit_get_nonzero_balances(sess, now, grantResp, latency, resp) ==
    Let(korbit_get_balances(sess, now, NoCurrencies, grantResp, latency, resp),
        LAMBDA c :
        IF ~c.res.ok THEN c
        ELSE [c EXCEPT !.res =
                 Ok(SelectSeq(c.res.val,
                              LAMBDA data : /\ data.balance > 0
                                            /\ Lower(data.currency) \notin KorbitExcluded))])

\* int(x) of line 107
int(j) ==
    CASE j.t = "num" -> Ok(j.n)
      [] j.t = "str" -> IF j.s # <<>> /\ \A i \in DOMAIN j.s : IsDigit(j.s[i])
                        THEN Ok(DigitsVal(j.s)) ELSE Exc("ValueError")
      [] OTHER -> Exc("TypeError")

\* get_price_by_currency (lines 96-111): the price, or None
korbit_get_price_by_currency(coin, resp) ==
    IF Upper(coin) = symKRWupper THEN Ok(JNum(1))
    ELSE IF resp.http # "ok" THEN Ok(JNull)
    ELSE LET data == resp.json
         IN  IF data.t # "dict" THEN Exc("TypeError")           \* data['timestamp']
             ELSE IF "timestamp" \notin DOMAIN data.d THEN Exc("KeyError")
             ELSE IF ~int(data.d["timestamp"]).ok THEN int(data.d["timestamp"])
             ELSE IF "last" \notin DOMAIN data.d THEN Exc("KeyError")
             ELSE LET last == float(data.d["last"])
                  IN  IF last.ok THEN Ok(JNum(last.val)) ELSE last

RECURSIVE KorbitLines(_, _)
\* lines 120-136
KorbitLines(balances, presp) ==
    IF balances = <<>> THEN Ok(<<>>)
    ELSE Let(balances[1].currency, LAMBDA currency :
         Let(KorbitLines(Tail(balances), presp), LAMBDA rest :
             IF Lower(currency) \in KorbitExcluded THEN rest
             ELSE Let(korbit_get_price_by_currency(currency, presp[currency]),
                      LAMBDA price :
                  LET available == balances[1].available
                      locked == balances[1].locked
                  IN  IF ~price.ok THEN price
                      ELSE IF price.val.t = "null" THEN rest
                      ELSE IF ~rest.ok THEN rest
                      ELSE Ok(<<ReportLine(currency, available + locked, price.val,
                                           (available + locked) * price.val.n)>>
                              \o rest.val))))

RECURSIVE Commas(_)
\* the thousands separators of the ',' format option
Commas(ds) ==
    IF Len(ds) <= 3 THEN ds
    ELSE Commas(SubSeq(ds, 1, Len(ds) - 3)) \o <<",">> \o SubSeq(ds, Len(ds) - 2, Len(ds))

\* four decimal digits
Frac4(n) == <<Digits[(n \div 1000) + 1], Digits[((n \div 100) % 10) + 1],
              Digits[((n \div 10) % 10) + 1], Digits[(n % 10) + 1]>>

\* f'{x:,.4f}' of a quantity x >= 0 counted in units of 10^-5: rounded to
\* four decimals (a fifth decimal of 5 rounds up)
Format4(x) ==
    LET r == (x + 5) \div 10
    IN  Commas(IntChars(r \div 10000)) \o <<".">> \o Frac4(r % 10000)

\* .str.replace(',', '').astype(float), back in units of 10^-5
ParseFloat(chars) ==
    LET plain == SelectSeq(chars, LAMBDA ch : ch # ",")
        dot == CHOOSE i \in DOMAIN plain : plain[i] = "."
    IN  DigitsVal(SubSeq(plain, 1, dot - 1)) * 100000
          + DigitsVal(SubSeq(plain, dot + 1, Len(plain))) * 10

\* lines 144-148 on one row: price becomes its formatted string, total is
\* formatted and parsed back
KorbitFormatted(row) ==
    [row EXCEPT !.price = JStr(Format4(row.price.n * 100000)),
                !.total = ParseFloat(Format4(row.total))]

\* lines 138-151 on the list of lines
KorbitFrame(report) ==
    Let(DataFrame(report), LAMBDA df :
        IF empty(df) THEN sort_values(df, "total")
        ELSE UNION {sort_values([columns |-> sorted.val.columns,
                                 rows |-> [i \in DOMAIN sorted.val.rows |->
                                             KorbitFormatted(sorted.val.rows[i])]],
                                "total") :
                      sorted \in sort_values(df, "total")})

\* get_report (lines 113-151): the outcomes it may have
korbit_get_report(sess, now, currencies, grantResp, latency, resp, presp) ==
    Let(korbit_get_balances(sess, now, Currencies(currencies), grantResp,
                            latency, resp), LAMBDA c :
        IF ~c.res.ok THEN {c}
        ELSE Let(KorbitLines(c.res.val, presp), LAMBDA lines :
                 IF ~lines.ok THEN {[c EXCEPT !.res = lines]}
                 ELSE {[c EXCEPT !.res = df] : df \in KorbitFrame(lines.val)}))

\* get_report_with_nonzero_balances (lines 153-156): two balance requests,
\* each behind its own token check
korbit_get_report_with_nonzero_balances(sess, now, grant1, grant2, latency, resp1, resp2, presp) ==
    Let(korbit_get_nonzero_balances(sess, now, grant1, latency, resp1), LAMBDA c1 :
        IF ~c1.res.ok THEN {c1}
        ELSE Let([i \in DOMAIN c1.res.val |-> c1.res.val[i].currency],
                 LAMBDA currencies :
                 {KorbitThen(c1, c2) :
                    c2 \in korbit_get_report(c1.sess, c1.now, currencies,
                                             grant2, latency, resp2, presp)}))

----------------------------------------------------------------------------
(* Inputs of the Korbit client *)

StartTime == 1000

MaxElapsed == 65

MaxGrants == 3

ExpiresIns == {30, 90, 120}

Latencies == {0, 1}

TickSteps == {29, 30, 31}

symbtc == <<"b","t","c">>

\* the token the server issues at its n-th grant
Token(n) == JStr(<<"t", Digits[n + 1]>>)

GrantResponses(n) ==
    {TransportError, HttpError(EmptyDict), Body(JList(<<>>)), Body(EmptyDict),
     Body(JDict("access_token" :> Token(n)))}
      \cup {Body(JDict("access_token" :> Token(n) @@ "expires_in" :> JNum(e))) :
              e \in ExpiresIns}

KorbitHolding(available, trade_in_use) ==
    JDict("available" :> JStr(IntChars(available))
          @@ "trade_in_use" :> JStr(IntChars(trade_in_use)))

KorbitBalanceResponses ==
    {TransportError, Body(EmptyDict), Body(JList(<<JNull>>)),
     Body(JObject(<<
         <<symKRW, KorbitHolding(1, 0)>>, <<symbtc, KorbitHolding(0, 0)>> >>))}

----------------------------------------------------------------------------
(* KorbitAPI as a state machine: construction, calls, the clock *)

KorbitInit ==
    /\ k_obj = "none"
    /\ k_now = StartTime
    /\ k_access_token = JNull
    /\ k_token_expires_at = 0
    /\ k_grants = 0
    /\ k_last = [op |-> "none"]

\* the call log: the method, the clock when it was called and when it
\* ended, its requests, its grant (and the response to it), its outcome
Record(op, at, c, grantResp) ==
    [op |-> op, at |-> at, now |-> c.now, reqs |-> c.reqs, grant |-> c.grant,
     granted |-> GrantSeen(c, grantResp), res |-> c.res]

\* KorbitAPI(client_id, client_secret); a failed construction leaves no
\* instance, and the program may construct another
Construct ==
    /\ k_obj \in {"none", "failed"}
    /\ k_grants < MaxGrants
    /\ \E resp \in GrantResponses(k_grants + 1), latency \in Latencies :
          LET c == korbit_init(k_now, resp, latency)
          IN  /\ k_obj' = IF c.res.ok THEN "live" ELSE "failed"
              /\ k_access_token' = c.sess.access_token
              /\ k_token_expires_at' = c.sess.token_expires_at
              /\ k_now' = c.now
              /\ k_grants' = k_grants + Len(SelectSeq(c.reqs, LAMBDA r : r = GrantRequest))
              /\ k_last' = Record("init", k_now, c, resp)
    /\ KorbitOnly

\* api.get_balances()
GetBalances ==
    /\ k_obj = "live"
    /\ k_grants < MaxGrants
    /\ \E grantResp \in GrantResponses(k_grants + 1), latency \in Latencies,
          resp \in KorbitBalanceResponses :
          LET c == korbit_get_balances(Session(k_access_token, k_token_expires_at),
                                       k_now, NoCurrencies, grantResp, latency, resp)
          IN  /\ k_access_token' = c.sess.access_token
              /\ k_token_expires_at' = c.sess.token_expires_at
              /\ k_now' = c.now
              /\ k_grants' = k_grants + (IF c.grant = "none" THEN 0 ELSE 1)
              /\ k_last' = Record("get_balances", k_now, c, grantResp)
              /\ UNCHANGED k_obj
    /\ KorbitOnly

\* time passes between calls
Tick ==
    /\ \E d \in TickSteps :
          /\ k_now + d <= StartTime + MaxElapsed
          /\ k_now' = k_now + d
    /\ UNCHANGED <<k_obj, k_access_token, k_token_expires_at, k_grants, k_last>>
    /\ KorbitOnly

KorbitNext ==
    \/ Construct
    \/ GetBalances
    \/ Tick

----------------------------------------------------------------------------
(* cex_agg.py *)

\* df['exchange'] = name
Tagged(df, name) ==
    [columns |-> df.columns \cup {"exchange"},
     rows |-> [i \in DOMAIN df.rows |-> [exchange |-> name] @@ df.rows[i]]]

RECURSIVE Rows(_)
\* the rows of the frames of dfs, in order
Rows(dfs) == IF dfs = <<>> THEN <<>> ELSE dfs[1].rows \o Rows(Tail(dfs))

\* pd.concat(dfs, ignore_index=True)
concat(dfs) ==
    [columns |-> UNION {dfs[i].columns : i \in DOMAIN dfs}, rows |-> Rows(dfs)]

\* mutant: the frames are merged in the order they were appended
merged_unsorted(dfs) == IF dfs = <<>> THEN {Ok(DataFrame(<<>>))} ELSE {Ok(concat(dfs))}

\* lines 45-50: the tables get_report may return for dfs
merged(dfs) ==
    IF dfs = <<>> THEN {Ok(DataFrame(<<>>))}
    ELSE sort_values(concat(dfs), "total")

ExchangeNames == {"Bithumb", "Coinone", "Korbit", "Upbit"}

NotRun == [ran |-> FALSE]

\* the log entry of one exchange: its nonzero list and its report
Ran(nonzero, out) == [ran |-> TRUE, nonzero |-> nonzero, out |-> out]

----------------------------------------------------------------------------
(* Inputs of the aggregator: what the four exchanges may answer.  Balances *)
(* are in units of 10^-5, prices in whole KRW.                             *)

symBTC == <<"B","T","C">>

\* one entry of an accounts list (Bithumb /v1/accounts, Upbit /v1/accounts)
Account(currency, balance, locked) ==
    JDict("currency" :> JStr(currency) @@ "balance" :> JStr(IntChars(balance))
          @@ "locked" :> JStr(IntChars(locked)))

ErrorBody == JDict("error" :> JStr(<<"d","e","n","i","e","d">>))

BithumbAccountResponses ==
    {TransportError, Body(ErrorBody),
     Body(JList(<<Account(symKRWupper, 200000, 0)>>)),
     Body(JList(<<Account(symKRWupper, 0, 0), Account(symBTC, 2, 1)>>))}

BithumbTickerResponses ==
    {TransportError,
     Body(JDict("status" :> JStr(S0000)
                @@ "data" :> JDict("closing_price" :> JStr(<<"5","0","0","0">>))))}

CoinoneBalance(currency, available, limit) ==
    JDict("currency" :> JStr(currency) @@ "available" :> JStr(IntChars(available))
          @@ "limit" :> JStr(IntChars(limit)))

CoinoneBalances(balances) ==
    Body(JDict("result" :> JStr(Ssuccess) @@ "balances" :> JList(balances)))

CoinoneBalanceResponses ==
    {TransportError,
     Body(JDict("result" :> JStr(<<"e","r","r","o","r">>))),
     CoinoneBalances(<<>>),
     CoinoneBalances(<<CoinoneBalance(symKRWupper, 200000, 0)>>),
     CoinoneBalances(<<CoinoneBalance(symKRWupper, 0, 0), CoinoneBalance(symBTC, 1, 1)>>)}

CoinoneTickerResponses ==
    {TransportError,
     Body(JDict("errorCode" :> JStr(<<"4">>))),
     Body(JDict("errorCode" :> JStr(S0) @@ "last" :> JStr(<<"5","0","0","0">>)))}

AggGrantResponses ==
    {TransportError,
     Body(JDict("access_token" :> Token(1))),
     Body(JDict("access_token" :> Token(1) @@ "expires_in" :> JNum(30))),
     Body(JDict("access_token" :> Token(1) @@ "expires_in" :> JNum(90)))}

AggLatencies == {0}

AggKorbitBalanceResponses ==
    {TransportError, Body(EmptyDict),
     Body(JObject(<< <<symKRW, KorbitHolding(0, 0)>> >>)),
     Body(JObject(<< <<symKRW, KorbitHolding(300000, 0)>>,
                     <<symbtc, KorbitHolding(4, 3)>> >>))}

KorbitTickerResponses ==
    {TransportError, Body(EmptyDict),
     Body(JDict("timestamp" :> JNum(1) @@ "last" :> JStr(<<"5","0","0","0">>)))}

UpbitAccountResponses ==
    {TransportError, HttpError(ErrorBody),
     Body(JList(<<>>)),
     Body(JList(<<Account(symKRWupper, 100000, 0)>>)),
     Body(JList(<<Account(symBTC, 6, 0)>>))}

UpbitTickerResponses ==
    {TransportError, Body(ErrorBody),
     Body(JList(<<JDict("timestamp" :> JNum(1) @@ "trade_price" :> JNum(5000))>>))}

\* the currencies of a nonzero list: the ones a report asks prices for
Held(nonzero) ==
    IF nonzero.ok THEN {nonzero.val[i].currency : i \in DOMAIN nonzero.val} ELSE {}

\* the same for Upbit, whose balances keep the raw `currency` entry
UpbitHeld(nonzero) ==
    IF nonzero.ok THEN {nonzero.val[i].currency[1] : i \in DOMAIN nonzero.val} ELSE {}

----------------------------------------------------------------------------
(* main() and Aggregator.get_report as a state machine *)

AggInit ==
    /\ a_pc = "main"
    /\ a_korbit = [sess |-> Session(JNull, 0), now |-> StartTime]
    /\ a_dfs = <<>>
    /\ a_reports = [e \in ExchangeNames |-> NotRun]
    /\ a_ret = None

\* main, lines 70-79: the clients are constructed (KorbitAPI requests its
\* first token; a failure ends main) and get_report is called
Main ==
    /\ a_pc = "main"
    /\ \E resp \in AggGrantResponses, latency \in AggLatencies :
          LET c == korbit_init(a_korbit.now, resp, latency)
          IN  IF c.res.ok
              THEN /\ a_pc' = "bithumb"
                   /\ a_korbit' = [sess |-> c.sess, now |-> c.now]
              ELSE /\ a_pc' = "crashed"
                   /\ UNCHANGED a_korbit
    /\ UNCHANGED <<a_dfs, a_reports, a_ret>>
    /\ AggOnly

\* one exchange of the try block: an exception (line 52) ends get_report
\* with an empty table; a non-empty report is tagged and appended
ReportStep(name, next, nonzero, out) ==
    /\ a_reports' = [a_reports EXCEPT ![name] = Ran(nonzero, out)]
    /\ IF out.ok
       THEN /\ a_pc' = next
            /\ a_dfs' = IF empty(out.val) THEN a_dfs
                        ELSE Append(a_dfs, Tagged(out.val, name))
            /\ UNCHANGED a_ret
       ELSE /\ a_pc' = "done"
            /\ a_ret' = DataFrame(<<>>)
            /\ UNCHANGED a_dfs

\* lines 21-24
ReportBithumb ==
    /\ a_pc = "bithumb"
    /\ \E resp1 \in BithumbAccountResponses, resp2 \in BithumbAccountResponses :
          \E nonzero \in {bithumb_get_nonzero_balances(resp1)} :
              \E presp \in [Held(nonzero) -> BithumbTickerResponses] :
                 ReportStep("Bithumb", "coinone", nonzero,
                            bithumb_get_report_with_nonzero_balances(resp1, resp2, presp))
    /\ UNCHANGED a_korbit
    /\ AggOnly

\* lines 27-30
ReportCoinone ==
    /\ a_pc = "coinone"
    /\ \E resp \in CoinoneBalanceResponses :
          \E nonzero \in {coinone_get_nonzero_balances(resp)} :
              \E presp \in [Held(nonzero) -> CoinoneTickerResponses] :
                 \E out \in coinone_get_report_with_nonzero_balances(resp, presp) :
                    ReportStep("Coinone", "korbit", nonzero, out)
    /\ UNCHANGED a_korbit
    /\ AggOnly

\* lines 33-36
ReportKorbit ==
    /\ a_pc = "korbit"
    /\ \E grantResp1 \in AggGrantResponses, grantResp2 \in AggGrantResponses,
          latency \in AggLatencies,
          resp1 \in AggKorbitBalanceResponses, resp2 \in AggKorbitBalanceResponses,
          presp \in [{symKRW, symbtc} -> KorbitTickerResponses] :
          \E nonzero \in {korbit_get_nonzero_balances(a_korbit.sess, a_korbit.now,
                                                       grantResp1, latency, resp1)} :
              \E c \in korbit_get_report_with_nonzero_balances(
                          a_korbit.sess, a_korbit.now, grantResp1, grantResp2,
                          latency, resp1, resp2, presp) :
                 /\ ReportStep("Korbit", "upbit", nonzero.res, c.res)
                 /\ a_korbit' = [sess |-> c.sess, now |-> c.now]
    /\ AggOnly

\* lines 39-42
ReportUpbit ==
    /\ a_pc = "upbit"
    /\ \E resp \in UpbitAccountResponses :
          \E nonzero \in {upbit_get_nonzero_balances(resp)} :
              \E bresp \in [UpbitHeld(nonzero) -> UpbitAccountResponses],
                 presp \in [UpbitHeld(nonzero) -> UpbitTickerResponses] :
                 \E out \in upbit_get_report_with_nonzero_balances(resp, bresp, presp) :
                    ReportStep("Upbit", "merge", nonzero, out)
    /\ UNCHANGED a_korbit
    /\ AggOnly

\* lines 45-50
Merge ==
    /\ a_pc = "merge"
    /\ \E result \in merged(a_dfs) :
          a_ret' = IF result.ok THEN result.val ELSE DataFrame(<<>>)
    /\ a_pc' = "done"
    /\ UNCHANGED <<a_korbit, a_dfs, a_reports>>
    /\ AggOnly

AggNext ==
    \/ Main
    \/ ReportBithumb
    \/ ReportCoinone
    \/ ReportKorbit
    \/ ReportUpbit
    \/ Merge

----------------------------------------------------------------------------
(* real_folio.py *)

RECURSIVE FirstValidFrom(_, _, _)
\* the loop of PriceAPI.get_first_valid_price (api_prices.py lines 129-134)
\* from entry i of `exchanges` on; resps[i] answers the request of source i
FirstValidFrom(i, symbol, resps) ==
    IF i > Len(exchanges) THEN Returned(0, NoValidPrice)
    ELSE LET result ==
                 (CASE i = 1 -> get_upbit_price(symbol, resps[1])
                    [] i = 2 -> get_bithumb_price(symbol, resps[2])
                    [] i = 3 -> get_coinone_price(symbol, resps[3])
                    [] i = 4 -> get_coingecko_price(symbol, resps[4])).val
         IN  IF result.kind = "raise" THEN Raise(result.exc)
             ELSE IF is_valid(result) THEN Returned(result.price, exchanges[i])
             ELSE FirstValidFrom(i + 1, symbol, resps)

get_first_valid_price(symbol, resps) == FirstValidFrom(1, symbol, resps)

\* @dataclass CryptoHolding
CryptoHolding(symbol, amount) == [symbol |-> symbol, amount |-> amount]

RECURSIVE PortfolioData(_, _)
\* lines 58-70: one dict per holding, whatever the resolver returned;
\* resps[n] holds the responses to the price requests of the n-th holding
PortfolioData(holdings, resps) ==
    IF holdings = <<>> THEN Ok(<<>>)
    ELSE LET got == get_first_valid_price(holdings[1].symbol, resps[1])
             rest == PortfolioData(Tail(holdings), Tail(resps))
         IN  IF got.kind = "raise" THEN Exc(got.exc)
             ELSE IF ~rest.ok THEN rest
             ELSE Ok(<<[symbol |-> Upper(holdings[1].symbol),
                        amount |-> holdings[1].amount,
                        price_krw |-> got.price,
                        exchange |-> got.name,
                        total_krw |-> got.price * holdings[1].amount]>>
                     \o rest.val)

RECURSIVE SumTotals(_)
\* total_value of lines 55 and 61
SumTotals(rows) ==
    IF rows = <<>> THEN 0 ELSE rows[1].total_krw + SumTotals(Tail(rows))

\* pd.NA
NA == "<NA>"

symTOTAL == <<"T","O","T","A","L">>

\* mutant: the rows are left in the order of the holdings
calculate_portfolio_unsorted(holdings, resps) ==
    Let(PortfolioData(holdings, resps), LAMBDA portfolio_data :
        IF ~portfolio_data.ok THEN {portfolio_data}
        ELSE IF portfolio_data.val = <<>> THEN {Exc("KeyError")}
        ELSE {Ok([columns |-> DataFrame(portfolio_data.val).columns,
                  rows |-> Append(portfolio_data.val,
                             [symbol |-> symTOTAL, amount |-> NA,
                              price_krw |-> NA, exchange |-> NA,
                              total_krw |-> SumTotals(portfolio_data.val)])])})

\* calculate_portfolio (lines 52-95): the outcomes it may have
calculate_portfolio(holdings, resps) ==
    UNION {IF ~portfolio_data.ok THEN {portfolio_data}
           ELSE {IF ~df.ok THEN df
                 ELSE Ok([columns |-> df.val.columns,
                          rows |-> Append(df.val.rows,
                                     [symbol |-> symTOTAL, amount |-> NA,
                                      price_krw |-> NA, exchange |-> NA,
                                      total_krw |-> SumTotals(portfolio_data.val)])]) :
                   df \in sort_values(DataFrame(portfolio_data.val), "total_krw")} :
             portfolio_data \in {PortfolioData(holdings, resps)}}

----------------------------------------------------------------------------
(* Inputs of a single client call.  An account holds, per currency, an     *)
(* available and a locked quantity; each exchange reports it in its own    *)
(* body format.                                                            *)

symETH == <<"E","T","H">>

symETHW == <<"E","T","H","W">>

Holding(currency, available, locked) ==
    [currency |-> currency, available |-> available, locked |-> locked]

ClientHoldings ==
    {<<>>,
     <<Holding(symBTC, 0, 3), Holding(symKRWupper, 200000, 0)>>,
     <<Holding(symETHW, 1, 1), Holding(symBTC, 2, 0)>>,
     <<Holding(symKRWupper, 1, 0), Holding(symBTC, 0, 0)>>,
     <<Holding(Lower(symETHW), 2, 0)>>,
     <<Holding(symBTC, 0, 0)>>}

\* GET /v1/accounts of Bithumb and of Upbit
AccountList(h) ==
    Body(JList([i \in DOMAIN h |->
                  Account(h[i].currency, h[i].available, h[i].locked)]))

\* POST /v2.1/account/balance of Coinone
CoinoneList(h) ==
    CoinoneBalances([i \in DOMAIN h |->
                       CoinoneBalance(h[i].currency, h[i].available, h[i].locked)])

\* GET /v1/user/balances of Korbit, whose keys are lower-case
KorbitDict(h) ==
    Body(JObject([i \in DOMAIN h |->
                    <<Lower(h[i].currency),
                      KorbitHolding(h[i].available, h[i].locked)>>]))

Denied == JObject(<< <<<<"e","r","r","o","r">>, JStr(<<"d","e","n","i","e","d">>)>> >>)

\* a request that failed: no connection, a non-2xx status, a body of the
\* wrong shape
ClientFailures ==
    {TransportError, HttpError(Denied), Body(Denied), Body(JList(<<JNull>>))}

ClientRequests ==
    {NoCurrencies, Currencies(<<symBTC>>), Currencies(<<symETH, symBTC>>),
     Currencies(<<symKRWupper, symBTC>>)}

ClientSymbols ==
    {symKRWupper, symBTC, symETH, symETHW}
      \cup {Lower(c) : c \in {symKRWupper, symBTC, symETH, symETHW}}

\* every ticker request of a call is answered alike
Tickers(resp) == [c \in ClientSymbols |-> resp]

\* the same list as a Korbit caller spells it
LowerList(currencies) ==
    IF currencies.given
    THEN Currencies([i \in DOMAIN currencies.list |-> Lower(currencies.list[i])])
    ELSE NoCurrencies

\* the holdings load_holdings reads from the environment, lower-cased
PortfolioHoldings ==
    {<<>>,
     <<CryptoHolding(symbtc, 2)>>,
     <<CryptoHolding(symbtc, 1), CryptoHolding(<<"x","r","p">>, 3)>>,
     <<CryptoHolding(<<"x","r","p">>, 3), CryptoHolding(symKRW, 5)>>}

\* what the four price sources answer for one symbol, in the order of
\* `exchanges`: nobody quotes it, the first source does, only a later one
\* does, or the first answers a body that is not a ticker
PortfolioQuotes(coin) ==
    {<<TransportError, TransportError, TransportError, TransportError>>,
     <<Body(JList(<<JDict("trade_price" :> JNum(2))>>)),
       TransportError, TransportError, TransportError>>,
     <<Body(JList(<<>>)), HttpError(EmptyDict),
       Body(JDict("errorCode" :> JStr(S0) @@ "last" :> JStr(<<"1">>))),
       TransportError>>,
     <<TransportError, Body(JDict("status" :> JStr(<<"5","5","0","0">>))),
       Body(JDict("errorCode" :> JStr(<<"4">>))),
       Body(JDict(token_id(coin) :> JDict("krw" :> JNum(1))))>>,
     <<Body(JNum(5)), TransportError, TransportError, TransportError>>}

\* a KorbitAPI whose cached token is still good: no grant is requested
LiveSession == Session(Token(1), StartTime + 30)

----------------------------------------------------------------------------
(* One call of one method on one client *)

ClientInit ==
    /\ c_op = "none"
    /\ c_client = "none"
    /\ c_currencies = NoCurrencies
    /\ c_holdings = <<>>
    /\ c_resps = <<>>
    /\ c_presp = <<>>
    /\ c_out = Ok(<<>>)

\* get_balances(currencies) on each of the four clients
CallGetBalances ==
    /\ c_op = "none"
    /\ c_op' = "get_balances"
    /\ c_presp' = c_presp
    /\ \E h \in ClientHoldings, currencies \in ClientRequests :
         /\ c_holdings' = h
         /\ \/ \E resp \in ClientFailures \cup {AccountList(h)} :
                 /\ c_client' = "bithumb"
                 /\ c_currencies' = currencies
                 /\ c_resps' = <<resp>>
                 /\ c_out' = bithumb_get_balances(currencies, resp)
            \/ \E resp \in ClientFailures \cup {CoinoneList(h)} :
                 /\ c_client' = "coinone"
                 /\ c_currencies' = currencies
                 /\ c_resps' = <<resp>>
                 /\ c_out' = coinone_get_balances(currencies, resp)
            \/ \E resp \in ClientFailures \cup {KorbitDict(h)} :
                 /\ c_client' = "korbit"
                 /\ c_currencies' = LowerList(currencies)
                 /\ c_resps' = <<resp>>
                 /\ c_out' = korbit_get_balances(LiveSession, StartTime,
                                 LowerList(currencies), TransportError, 0, resp).res
            \/ \E resp \in ClientFailures \cup {AccountList(h)} :
                 /\ c_client' = "upbit"
                 /\ c_currencies' = currencies
                 /\ c_resps' = <<resp>>
                 /\ c_out' = upbit_get_balances(currencies, resp)
    /\ ClientOnly

\* get_nonzero_balances() on each of the four clients
CallGetNonzeroBalances ==
    /\ c_op = "none"
    /\ c_op' = "get_nonzero_balances"
    /\ c_currencies' = c_currencies
    /\ c_presp' = c_presp
    /\ \E h \in ClientHoldings :
         /\ c_holdings' = h
         /\ \/ \E resp \in ClientFailures \cup {AccountList(h)} :
                 /\ c_client' = "bithumb"
                 /\ c_resps' = <<resp>>
                 /\ c_out' = bithumb_get_nonzero_balances(resp)
            \/ \E resp \in ClientFailures \cup {CoinoneList(h)} :
                 /\ c_client' = "coinone"
                 /\ c_resps' = <<resp>>
                 /\ c_out' = coinone_get_nonzero_balances(resp)
            \/ \E resp \in ClientFailures \cup {KorbitDict(h)} :
                 /\ c_client' = "korbit"
                 /\ c_resps' = <<resp>>
                 /\ c_out' = korbit_get_nonzero_balances(LiveSession, StartTime,
                                 TransportError, 0, resp).res
            \/ \E resp \in ClientFailures \cup {AccountList(h)} :
                 /\ c_client' = "upbit"
                 /\ c_resps' = <<resp>>
                 /\ c_out' = upbit_get_nonzero_balances(resp)
    /\ ClientOnly

\* get_report(currencies) on each of the four clients
CallGetReport ==
    /\ c_op = "none"
    /\ c_op' = "get_report"
    /\ \E h \in ClientHoldings :
         /\ c_holdings' = h
         /\ \/ \E resp \in ClientFailures \cup {AccountList(h)},
                  currencies \in ClientRequests, presp \in BithumbTickerResponses :
                 /\ c_client' = "bithumb"
                 /\ c_currencies' = currencies
                 /\ c_resps' = <<resp>>
                 /\ c_presp' = presp
                 /\ c_out' = bithumb_get_report(currencies, resp, Tickers(presp))
            \/ \E resp \in ClientFailures \cup {CoinoneList(h)},
                  currencies \in ClientRequests \ {NoCurrencies},
                  presp \in CoinoneTickerResponses :
                 /\ c_client' = "coinone"
                 /\ c_currencies' = currencies
                 /\ c_resps' = <<resp>>
                 /\ c_presp' = presp
                 /\ \E out \in coinone_get_report(currencies.list, resp, Tickers(presp)) :
                      c_out' = out
            \/ \E resp \in ClientFailures \cup {KorbitDict(h)},
                  currencies \in ClientRequests \ {NoCurrencies},
                  presp \in KorbitTickerResponses :
                 /\ c_client' = "korbit"
                 /\ c_currencies' = LowerList(currencies)
                 /\ c_resps' = <<resp>>
                 /\ c_presp' = presp
                 /\ \E c \in korbit_get_report(LiveSession, StartTime,
                                 LowerList(currencies).list, TransportError, 0,
                                 resp, Tickers(presp)) :
                      c_out' = c.res
            \/ \E resp \in ClientFailures \cup {AccountList(h)},
                  currencies \in ClientRequests \ {NoCurrencies},
                  presp \in UpbitTickerResponses :
                 /\ c_client' = "upbit"
                 /\ c_currencies' = currencies
                 /\ c_resps' = <<resp>>
                 /\ c_presp' = presp
                 /\ \E out \in upbit_get_report(currencies.list, Tickers(resp),
                                                Tickers(presp)) :
                      c_out' = out
    /\ ClientOnly

\* PortfolioManager.calculate_portfolio() over the loaded holdings
CallCalculatePortfolio ==
    /\ c_op = "none"
    /\ c_op' = "calculate_portfolio"
    /\ c_client' = "portfolio"
    /\ c_currencies' = c_currencies
    /\ c_presp' = c_presp
    /\ \E holdings \in PortfolioHoldings :
         /\ c_holdings' = holdings
         /\ \E resps \in {r \in [DOMAIN holdings ->
                                  UNION {PortfolioQuotes(holdings[n].symbol) :
                                           n \in DOMAIN holdings}] :
                            \A n \in DOMAIN holdings :
                               r[n] \in PortfolioQuotes(holdings[n].symbol)} :
              /\ c_resps' = resps
              /\ \E out \in calculate_portfolio(holdings, resps) : c_out' = out
    /\ ClientOnly

\* get_report_with_nonzero_balances() on each of the four clients.  Bithumb,
\* Korbit and Upbit fetch the balances again for the report: the second
\* fetch is answered like the first, fails, or finds the account emptied
CallGetReportWithNonzeroBalances ==
    /\ c_op = "none"
    /\ c_op' = "get_report_with_nonzero_balances"
    /\ c_currencies' = c_currencies
    /\ \E h \in ClientHoldings :
         /\ c_holdings' = h
         /\ \/ \E resp1 \in ClientFailures \cup {AccountList(h)},
                  presp \in BithumbTickerResponses :
                 \E resp2 \in {resp1, TransportError, AccountList(<<>>)} :
                    /\ c_client' = "bithumb"
                    /\ c_resps' = <<resp1, resp2>>
                    /\ c_presp' = presp
                    /\ c_out' = bithumb_get_report_with_nonzero_balances(
                                   resp1, resp2, Tickers(presp))
            \/ \E resp \in ClientFailures \cup {CoinoneList(h)},
                  presp \in CoinoneTickerResponses :
                 /\ c_client' = "coinone"
                 /\ c_resps' = <<resp>>
                 /\ c_presp' = presp
                 /\ \E out \in coinone_get_report_with_nonzero_balances(
                                  resp, Tickers(presp)) :
                      c_out' = out
            \/ \E resp1 \in ClientFailures \cup {KorbitDict(h)},
                  presp \in KorbitTickerResponses :
                 \E resp2 \in {resp1, TransportError, KorbitDict(<<>>)} :
                    /\ c_client' = "korbit"
                    /\ c_resps' = <<resp1, resp2>>
                    /\ c_presp' = presp
                    /\ \E c \in korbit_get_report_with_nonzero_balances(
                                   LiveSession, StartTime, TransportError,
                                   TransportError, 0, resp1, resp2, Tickers(presp)) :
                         c_out' = c.res
            \/ \E resp1 \in ClientFailures \cup {AccountList(h)},
                  presp \in UpbitTickerResponses :
                 \E resp2 \in {resp1, TransportError, AccountList(<<>>)} :
                    /\ c_client' = "upbit"
                    /\ c_resps' = <<resp1, resp2>>
                    /\ c_presp' = presp
                    /\ \E out \in upbit_get_report_with_nonzero_balances(
                                     resp1, Tickers(resp2), Tickers(presp)) :
                         c_out' = out
    /\ ClientOnly

ClientNext ==
    \/ CallGetBalances
    \/ CallGetNonzeroBalances
    \/ CallGetReport
    \/ CallGetReportWithNonzeroBalances
    \/ CallCalculatePortfolio

----------------------------------------------------------------------------
(* Specifications: one component runs, the others stay as constructed *)

Init == PriceInit /\ KorbitInit /\ AggInit /\ ClientInit

SpecPrice == Init /\ [][PriceNext]_vars

SpecKorbit == Init /\ [][KorbitNext]_vars

SpecAgg == Init /\ [][AggNext]_vars

SpecClients == Init /\ [][ClientNext]_vars

----------------------------------------------------------------------------
(* Properties of the price resolver *)

\* PriceQuote.is_valid of the specification: no error and a positive price
ValidQuote(q) == q.kind = "quote" /\ q.error = None /\ q.price > 0

FirstValid == CHOOSE i \in 1..Len(p_quotes) :
                 /\ ValidQuote(p_quotes[i])
                 /\ \A j \in 1..(i - 1) : ~ValidQuote(p_quotes[j])

\* C1: the sources are evaluated in the order Upbit, Bithumb, Coinone,
\* Coingecko, and a call that returns a source's name returns the price and
\* name of the first source whose quote has no error and a price > 0; a quote
\* with an error, or with a price <= 0, is passed over.
C1_FirstValidQuote ==
    /\ Len(p_quotes) = Len(p_calls)
    /\ p_calls = SubSeq(exchanges, 1, Len(p_calls))
    /\ p_pc = "loop" => \A i \in 1..Len(p_quotes) : ~ValidQuote(p_quotes[i])
    /\ (p_pc = "done" /\ p_ret.kind = "return") =>
          IF \E i \in 1..Len(p_quotes) : ValidQuote(p_quotes[i])
          THEN /\ FirstValid = Len(p_quotes)
               /\ p_quotes[FirstValid].exchange = exchanges[FirstValid]
               /\ p_ret = Returned(p_quotes[FirstValid].price, exchanges[FirstValid])
          ELSE p_ret.name = NoValidPrice

\* a call returned Coinone's quote after passing over an error quote and an
\* error-free quote whose price is not positive
C1_Witness ==
    /\ p_pc = "done"
    /\ p_ret.kind = "return"
    /\ p_ret.name = "Coinone"
    /\ p_quotes[1].error # None
    /\ p_quotes[2].error = None
    /\ p_quotes[2].price <= 0

\* C2: within one call a source is looked up only after every earlier source
\* was looked up and gave an invalid quote: each lookup extends the sequence
\* of lookups by the next entry of the fixed order, so the lookups are a
\* prefix of it, none is repeated, and none follows a valid quote.
C2_OrderedShortCircuit ==
    [][ p_calls' # p_calls =>
          \/ /\ p_pc \in {"idle", "done"}         \* the next call starts
             /\ p_pc' = "loop"
             /\ p_calls' = <<>>
          \/ /\ p_pc = "loop"
             /\ Len(p_calls) < Len(exchanges)
             /\ p_calls' = Append(p_calls, exchanges[Len(p_calls) + 1])
             /\ \A j \in 1..Len(p_quotes) :
                   p_quotes[j].kind = "quote" /\ ~ValidQuote(p_quotes[j]) ]_p_vars

\* Bithumb gave a valid quote: Coinone and Coingecko were never looked up
C2_Witness ==
    /\ p_pc = "done"
    /\ p_ret.kind = "return"
    /\ p_ret.name = "Bithumb"
    /\ p_calls = <<"Upbit", "Bithumb">>
    /\ Len(p_http) = 2

\* C3: for a symbol that spells KRW in any letter case, the call issues no
\* HTTP request and returns price 1.0 attributed to Upbit, the first source.
C3_FiatShortCircuit ==
    p_symbol \in KrwSpellings =>
        /\ p_http = <<>>
        /\ p_pc = "done" => /\ p_ret = Returned(1, "Upbit")
                            /\ p_calls = <<"Upbit">>

\* a call for the mixed-case spelling "Krw" has returned
C3_Witness ==
    /\ p_pc = "done"
    /\ p_symbol = <<"K","r","w">>
    /\ p_ret.kind = "return"

\* C4: the sentinel (0.0, "No valid price found") is returned exactly when
\* all four sources were queried and none gave a valid quote.
C4_ExhaustedSentinel ==
    /\ (p_ret.kind = "return" /\ (p_ret.name = NoValidPrice \/ p_ret.price = 0)) =>
          /\ p_ret = Returned(0, NoValidPrice)
          /\ p_calls = exchanges
          /\ \A i \in 1..Len(exchanges) :
                p_quotes[i].kind = "quote" /\ ~ValidQuote(p_quotes[i])
    /\ (/\ p_pc = "done"
        /\ Len(p_quotes) = Len(exchanges)
        /\ \A i \in 1..Len(exchanges) :
              p_quotes[i].kind = "quote" /\ ~ValidQuote(p_quotes[i])) =>
          p_ret = Returned(0, NoValidPrice)

\* the sentinel was returned after four HTTP lookups
C4_Witness ==
    /\ p_pc = "done"
    /\ p_ret = Returned(0, NoValidPrice)
    /\ Len(p_http) = 4

\* C5: no response of a price source makes get_first_valid_price raise: a
\* call ends in a valid quote or in the exhausted-sources sentinel.
C5_NeverRaises ==
    p_pc = "done" => p_ret.kind = "return"

----------------------------------------------------------------------------
(* Properties of the aggregator *)

Returned_agg == a_pc = "done"

\* the exchange's get_report_with_nonzero_balances raised
Failed(e) == a_reports[e].ran /\ ~a_reports[e].out.ok

Succeeded(e) == a_reports[e].ran /\ a_reports[e].out.ok

\* the exchange was asked and its nonzero-balance list was empty
HoldsNothing(e) ==
    /\ a_reports[e].ran
    /\ a_reports[e].nonzero.ok
    /\ a_reports[e].nonzero.val = <<>>

\* the lines of the report the exchange returned, tagged with its name
LinesOf(e) ==
    IF Succeeded(e) THEN Tagged(a_reports[e].out.val, e).rows ELSE <<>>

InTable(line) == \E i \in DOMAIN a_ret.rows : a_ret.rows[i] = line

RowsFrom(e) == {i \in DOMAIN a_ret.rows : a_ret.rows[i].exchange = e}

OthersReturned(e) ==
    \A o \in ExchangeNames \ {e} : \A i \in DOMAIN LinesOf(o) : InTable(LinesOf(o)[i])

\* C6: when the report of one exchange raises, get_report still returns
\* a table: it has no line of that exchange and it has every line of every
\* report the other exchanges returned.
C6_FailureIsolated ==
    Returned_agg =>
        \A e \in ExchangeNames : Failed(e) => (RowsFrom(e) = {} /\ OthersReturned(e))

\* C7: an exchange whose nonzero-balance list is empty is skipped: its
\* report is built without an exception, the returned table has no row of
\* it, and the lines of the other exchanges are all in the table.
C7_EmptyExchangeSkipped ==
    Returned_agg =>
        \A e \in ExchangeNames :
            HoldsNothing(e) => (Succeeded(e) /\ RowsFrom(e) = {} /\ OthersReturned(e))

AllSucceeded == \A e \in ExchangeNames : Succeeded(e)

\* the reports in the order the exchanges are asked
Concatenation ==
    LinesOf("Bithumb") \o LinesOf("Coinone") \o LinesOf("Korbit") \o LinesOf("Upbit")

Count(rows, line) == Cardinality({i \in DOMAIN rows : rows[i] = line})

\* the same lines, each as often: none lost, duplicated or altered
SameLines(rows, lines) ==
    /\ Len(rows) = Len(lines)
    /\ \A i \in DOMAIN lines : Count(rows, lines[i]) = Count(lines, lines[i])

NonIncreasing(rows) ==
    \A i \in 1..(Len(rows) - 1) : rows[i].total >= rows[i + 1].total

\* C8: when all four reports are returned, the table get_report returns
\* holds exactly the lines of the non-empty reports, each tagged with the
\* name of its exchange, in an order of non-increasing total.
C8_MergedSorted ==
    (Returned_agg /\ AllSucceeded) =>
        /\ SameLines(a_ret.rows, Concatenation)
        /\ NonIncreasing(a_ret.rows)
        /\ \A i \in DOMAIN a_ret.rows :
              /\ a_ret.rows[i].exchange \in ExchangeNames
              /\ \E j \in DOMAIN LinesOf(a_ret.rows[i].exchange) :
                    LinesOf(a_ret.rows[i].exchange)[j] = a_ret.rows[i]

\* C8 witness: a returned table in which lines of three exchanges are
\* interleaved: a Korbit line first, then a line of an exchange asked
\* before Korbit, and a Korbit line after it
C8_Witness ==
    /\ Returned_agg
    /\ AllSucceeded
    /\ Len(a_ret.rows) >= 4
    /\ a_ret.rows[1].exchange = "Korbit"
    /\ a_ret.rows[2].exchange \in {"Bithumb", "Coinone"}
    /\ a_ret.rows[3].exchange = "Korbit"
    /\ a_ret.rows[1].total > a_ret.rows[4].total

----------------------------------------------------------------------------
(* Properties of the Korbit session *)

GrantsIn(reqs) == Len(SelectSeq(reqs, LAMBDA r : r = GrantRequest))

\* C9: after a successful grant that ended at time t with expires_in = E the
\* cached expiry is t + E - 60 and the cached token is the granted one; a
\* call on the instance at a time strictly before the cached expiry sends no
\* grant request and sends the API request with the cached token; a call at
\* or after the expiry sends exactly one grant request, first, and the API
\* request (if the grant succeeds) carries the new token.
C9_TokenCache ==
    /\ [](k_last.op # "none" /\ k_last.grant = "ok" =>
            /\ k_token_expires_at =
                  k_last.now + k_last.granted[1].json.d["expires_in"].n - 60
            /\ k_access_token = k_last.granted[1].json.d["access_token"])
    /\ [][ (k_obj = "live" /\ k_last' # k_last) =>
             IF k_now < k_token_expires_at
             THEN /\ k_grants' = k_grants
                  /\ k_last'.grant = "none"
                  /\ GrantsIn(k_last'.reqs) = 0
                  /\ k_access_token' = k_access_token
                  /\ k_token_expires_at' = k_token_expires_at
                  /\ Len(k_last'.reqs) = 1
                  /\ k_last'.reqs[1].headers = Bearer(k_access_token)
             ELSE /\ k_grants' = k_grants + 1
                  /\ k_last'.grant # "none"
                  /\ k_last'.reqs[1] = GrantRequest
                  /\ GrantsIn(k_last'.reqs) = 1
                  /\ Len(k_last'.reqs) = 2 =>
                        /\ k_last'.grant = "ok"
                        /\ k_last'.reqs[2].headers = Bearer(k_access_token') ]_vars

\* expires_in = 120 granted at StartTime: a call 59 s later, with more than
\* 60 s of validity left, was a cache hit
C9_Witness ==
    /\ k_last.op = "get_balances"
    /\ k_last.at = StartTime + 59
    /\ k_token_expires_at = StartTime + 60
    /\ k_last.grant = "none"
    /\ k_grants = 1

\* C10: a failed grant request always surfaces as a raised failure of the
\* call that attempted it, at construction and inside get_balances alike.
C10_GrantFailurePropagates ==
    (k_last.op # "none" /\ k_last.grant = "failed") => ~k_last.res.ok

\* C19: a failed grant attempt leaves the cached session unchanged: when
\* _get_access_token raises, access_token and token_expires_at both keep
\* the values they had before the attempt.  (An instance whose construction
\* failed does not exist, so the calls on a live instance are what counts.)
C19_FailedGrantKeepsSession ==
    [][ (k_obj = "live" /\ k_grants' # k_grants /\ k_last'.grant = "failed") =>
           /\ k_access_token' = k_access_token
           /\ k_token_expires_at' = k_token_expires_at ]_vars

----------------------------------------------------------------------------
(* Properties of a single client call *)

\* the currency and the quantity of one entry of a balance list (Upbit keeps
\* the raw `currency` entry and the balance as a string)
EntryCurrency(e) == IF c_client = "upbit" THEN e.currency[1] ELSE e.currency

EntryBalance(e) == IF c_client = "upbit" THEN float(e.balance).val ELSE e.balance

\* C11: get_balances called with a list of requested currencies returns
\* exactly one entry per requested currency, in the order requested (a
\* zero-balance placeholder for a currency the exchange did not report), so
\* the output is as long as the request even when the request failed.
C11_OneEntryPerRequested ==
    (c_op = "get_balances" /\ c_currencies.given) =>
        /\ c_out.ok
        /\ Len(c_out.val) = Len(c_currencies.list)
        /\ \A i \in DOMAIN c_out.val :
             EntryCurrency(c_out.val[i]) = c_currencies.list[i]

\* the codes no client is to report, whatever their case
Excluded == {<<"E","T","H","W">>, <<"E","T","H","F">>}

\* C12: get_nonzero_balances returns only currencies whose total is > 0 and
\* whose code, compared case-insensitively, is not excluded: an excluded
\* code is never returned by any client even with a positive balance, and a
\* currency whose funds are all locked is still returned.
C12_ExcludedNeverReturned ==
    (c_op = "get_nonzero_balances" /\ c_out.ok) =>
        /\ \A i \in DOMAIN c_out.val :
             /\ EntryBalance(c_out.val[i]) > 0
             /\ Upper(EntryCurrency(c_out.val[i])) \notin Excluded
        /\ c_resps[1] \notin ClientFailures =>
             \A j \in DOMAIN c_holdings :
                (/\ c_holdings[j].available + c_holdings[j].locked > 0
                 /\ Upper(c_holdings[j].currency) \notin Excluded) =>
                    \E i \in DOMAIN c_out.val :
                       Upper(EntryCurrency(c_out.val[i])) = Upper(c_holdings[j].currency)

\* the exchange answered the balance request with the account's holdings
Answered == c_out.ok /\ c_resps[1] \notin ClientFailures

\* entry e of a balance list is the entry of holding h
EntryOf(e, h) == Upper(EntryCurrency(e)) = Upper(h.currency)

\* C13: in every client the balance of a currency is the sum of the
\* exchange's available and locked quantities, and this sum is what both
\* the reported balance and the nonzero test use: get_nonzero_balances
\* keeps no entry whose sum is 0 and drops no entry whose sum is > 0
\* (unless the client excludes its code).
C13_BalanceIsSum ==
    (c_op \in {"get_balances", "get_nonzero_balances"} /\ Answered) =>
        /\ \A i \in DOMAIN c_out.val, j \in DOMAIN c_holdings :
             EntryOf(c_out.val[i], c_holdings[j]) =>
                EntryBalance(c_out.val[i])
                  = c_holdings[j].available + c_holdings[j].locked
        /\ c_op = "get_nonzero_balances" =>
             /\ \A i \in DOMAIN c_out.val :
                  /\ EntryBalance(c_out.val[i]) > 0
                  /\ \E j \in DOMAIN c_holdings : EntryOf(c_out.val[i], c_holdings[j])
             /\ \A j \in DOMAIN c_holdings :
                  (/\ c_holdings[j].available + c_holdings[j].locked > 0
                   /\ Upper(c_holdings[j].currency) \notin Excluded) =>
                      \E i \in DOMAIN c_out.val : EntryOf(c_out.val[i], c_holdings[j])

\* C13 witness: a nonzero list that reports a currency whose funds are all
\* locked, with the locked quantity as its balance
C13_Witness ==
    /\ c_op = "get_nonzero_balances"
    /\ Answered
    /\ \E i \in DOMAIN c_out.val, j \in DOMAIN c_holdings :
         /\ EntryOf(c_out.val[i], c_holdings[j])
         /\ c_holdings[j].available = 0
         /\ c_holdings[j].locked > 0
         /\ EntryBalance(c_out.val[i]) = c_holdings[j].locked

\* C14: the report returned by each client's get_report is sorted by total
\* in non-increasing order.
C14_ReportSorted ==
    (c_op = "get_report" /\ c_out.ok) =>
        \A i \in 1..(Len(c_out.val.rows) - 1) :
           c_out.val.rows[i].total >= c_out.val.rows[i + 1].total

Reports == {"get_report", "get_report_with_nonzero_balances"}

\* the price recorded in a report line, as a number (Korbit records its
\* formatted text)
LinePrice(line) ==
    IF line.price.t = "str" THEN ParseFloat(line.price.s) \div 100000
    ELSE line.price.n

\* C15: every line of every report satisfies total = balance * price for the
\* balance and the price recorded in that line; no builder rounds,
\* reformats or re-parses total or price so as to break the equality.
C15_TotalIsBalanceTimesPrice ==
    (c_op \in Reports /\ c_out.ok) =>
        \A i \in DOMAIN c_out.val.rows :
           /\ c_out.val.rows[i].price.t = "num"
           /\ c_out.val.rows[i].total
                = c_out.val.rows[i].balance * LinePrice(c_out.val.rows[i])

\* C16: a report never contains a line for an entry whose price could not
\* be resolved: calculate_portfolio drops a holding for which the resolver
\* returned (0.0, "No valid price found") and keeps the holdings that
\* resolved, and a client's report has no line for a currency whose price
\* lookup failed.
C16_UnpricedEntryDropped ==
    /\ (c_op = "calculate_portfolio" /\ c_out.ok) =>
          \A i \in DOMAIN c_out.val.rows :
             c_out.val.rows[i].symbol # symTOTAL =>
                c_out.val.rows[i].exchange # NoValidPrice
    /\ (c_op \in Reports /\ c_out.ok /\ c_presp = TransportError) =>
          \A i \in DOMAIN c_out.val.rows :
             Upper(c_out.val.rows[i].currency) = symKRWupper

\* C17: a balance retrieval (get_balances, get_nonzero_balances) whose HTTP
\* call ends in a transport failure, a non-2xx status or a malformed body
\* does not raise, and returns an empty result.
C17_FailedRetrievalIsEmpty ==
    (c_op \in {"get_balances", "get_nonzero_balances"}
       /\ c_resps[1] \in ClientFailures) =>
        /\ c_out.ok
        /\ ~c_currencies.given => c_out.val = <<>>

\* the ticker requests of the call failed: no connection, or a body without
\* the price
TickerFailed ==
    c_presp \in {TransportError, Body(EmptyDict), Body(ErrorBody),
                 Body(JDict("errorCode" :> JStr(<<"4">>)))}

\* the account holds some of currency sym and the report is to cover it
HeldAndAsked(sym) ==
    /\ \E j \in DOMAIN c_holdings :
          /\ Upper(c_holdings[j].currency) = sym
          /\ c_holdings[j].available + c_holdings[j].locked > 0
    /\ \/ c_op = "get_report_with_nonzero_balances"
       \/ ~c_currencies.given
       \/ \E n \in DOMAIN c_currencies.list : Upper(c_currencies.list[n]) = sym

\* C18: while a report is built, a failed or malformed price lookup for one
\* currency affects only that currency's line: the build does not raise and
\* the lines of the currencies whose lookup succeeded are in the report.
\* (KRW needs no request, so its lookup always succeeds.)
C18_PriceFailureIsolated ==
    (/\ c_op \in Reports
     /\ \A n \in DOMAIN c_resps : c_resps[n] = c_resps[1] /\ c_resps[n] \notin ClientFailures
     /\ TickerFailed
     /\ HeldAndAsked(symBTC)
     /\ HeldAndAsked(symKRWupper)) =>
        /\ c_out.ok
        /\ \E i \in DOMAIN c_out.val.rows :
              Upper(c_out.val.rows[i].currency) = symKRWupper

\* C20: every line of a report of get_report_with_nonzero_balances has a
\* balance > 0 and a currency outside the exclusion set, whatever the HTTP
\* calls end in: a failure or a change of the second balance fetch brings
\* no zero-balance placeholder line into the report.
C20_NonzeroReportLines ==
    (c_op = "get_report_with_nonzero_balances" /\ c_out.ok) =>
        \A i \in DOMAIN c_out.val.rows :
           /\ c_out.val.rows[i].balance > 0
           /\ Upper(c_out.val.rows[i].currency) \notin Excluded

\* the holding rows of a returned portfolio table: all rows but the last
HoldingRows == SubSeq(c_out.val.rows, 1, Len(c_out.val.rows) - 1)

\* the last row of a returned portfolio table
LastRow == c_out.val.rows[Len(c_out.val.rows)]

\* the call got a price, or the sentinel, for every holding: no lookup raised
AllLooked ==
    \A n \in DOMAIN c_holdings :
       get_first_valid_price(c_holdings[n].symbol, c_resps[n]).kind # "raise"

\* the table shows the holdings in non-increasing order of total_krw, then
\* one TOTAL row whose total_krw is the sum over the holding rows
PortfolioShape ==
    /\ Len(c_out.val.rows) = Len(c_holdings) + 1
    /\ \E p \in [DOMAIN c_holdings -> DOMAIN c_holdings] :
          /\ \A m, n \in DOMAIN c_holdings : p[m] = p[n] => m = n
          /\ \A n \in DOMAIN c_holdings :
                /\ HoldingRows[n].symbol = Upper(c_holdings[p[n]].symbol)
                /\ HoldingRows[n].amount = c_holdings[p[n]].amount
                /\ HoldingRows[n].total_krw
                     = HoldingRows[n].price_krw * HoldingRows[n].amount
                /\ HoldingRows[n].exchange = NoValidPrice
                     => HoldingRows[n].total_krw = 0
    /\ \A n \in 1..(Len(HoldingRows) - 1) :
          HoldingRows[n].total_krw >= HoldingRows[n + 1].total_krw
    /\ LastRow.symbol = symTOTAL
    /\ \A n \in DOMAIN HoldingRows : HoldingRows[n].symbol # symTOTAL
    /\ LastRow.total_krw = SumTotals(HoldingRows)

====
